---- MODULE Spec2Model ----
(***************************************************************************)
(* RealFlow_AI: the structural validator and the confidence scorer of      *)
(* src/src/validator.py, as a state machine over a decoded workflow graph, *)
(* and the retrieval of reference workflows of src/src/rag.py and          *)
(* src/src/metadata_utils.py, as a state machine over one search.          *)
(*                                                                         *)
(* A workflow is the decoded JSON object.  A key that is absent from a     *)
(* Python dict is the string NONE here; a node is its four keys the        *)
(* validator reads (id, name, type and parameters.operation).              *)
(***************************************************************************)
EXTENDS Integers, Sequences, FiniteSets, TLC

VARIABLES workflow, top_similarity, pc, validation, confidence

\* the retrieval side (src/src/rag.py): the query and requested count, the
\* nearest-neighbor service's ranked answer for the query, the candidate
\* lists search_workflows works on, the number of supplementary queries it
\* has issued, the selection, and the tuples before and after reranking
VARIABLES query, n_results, collection, pool, backup_queries, final,
          results_for_rerank, results

searchVars == <<query, n_results, collection, pool, backup_queries, final,
                results_for_rerank, results>>

\* the ingestion side (src/src/metadata_utils.py and
\* src/src/rag_v3/metadata_extractor.py): the decoded workflow file whose
\* metadata is inferred, and what has been inferred so far
VARIABLES workflow_json, metadata

ingestVars == <<workflow_json, metadata>>

\* the ingestion run (src/src/rag_v3/pipeline.py, run_pipeline): its
\* statistics, the scanned files, the entries built so far, the number of
\* files the loop has processed, the status lines printed, and the value
\* returned
VARIABLES stats, new_files, entries, processed, log, success

pipelineVars == <<stats, new_files, entries, processed, log, success>>

\* the selection of the collection (src/src/rag.py, get_retriever, and its
\* callers): os.environ["RAG_VERSION"], the module attribute rag.RAG_VERSION,
\* the parsed command line, the names of the collections in ./chroma_db, and
\* the name of the collection the retrieval opened
VARIABLES environ, RAG_VERSION, args, chroma_db, opened

cliVars == <<environ, RAG_VERSION, args, chroma_db, opened>>

\* the API server (src/src/api.py): the requests with their replies, the
\* request whose handler the event loop is running (0: none), the module
\* attribute generated_workflows, and the locals workflow_id and response of
\* the running generate_workflow
VARIABLES requests, running, generated_workflows, workflow_id, response

apiVars == <<requests, running, generated_workflows, workflow_id, response>>

extVars == <<ingestVars, pipelineVars, cliVars, apiVars>>

vars == <<workflow, top_similarity, pc, validation, confidence, query, n_results,
          collection, pool, backup_queries, final, results_for_rerank, results,
          workflow_json, metadata, stats, new_files, entries, processed, log,
          success, environ, RAG_VERSION, args, chroma_db, opened, requests,
          running, generated_workflows, workflow_id, response>>

\* dict.get(key) of a key that is not there (Python None)
NONE == "<absent>"

\* Python truthiness of a string-or-None value: None and "" are falsy
Falsy(v) == v = NONE \/ v = ""

\* dict.get(key, default)
Get(v, default) == IF v = NONE THEN default ELSE v

\* no metadata inference is in progress
NoIngest ==
    /\ workflow_json = NONE
    /\ metadata = NONE

\* no ingestion run is in progress
NoPipeline ==
    /\ stats = NONE
    /\ new_files = <<>>
    /\ entries = <<>>
    /\ processed = 0
    /\ log = <<>>
    /\ success = FALSE

\* no program has started
NoCli ==
    /\ environ = NONE
    /\ RAG_VERSION = NONE
    /\ args = NONE
    /\ chroma_db = {}
    /\ opened = NONE

\* no server is running
NoApi ==
    /\ requests = <<>>
    /\ running = 0
    /\ generated_workflows = <<>>
    /\ workflow_id = NONE
    /\ response = NONE

\* nothing of the ingestion side is in use
NoExt ==
    /\ NoIngest
    /\ NoPipeline
    /\ NoCli
    /\ NoApi

Range(s) == {s[i] : i \in 1..Len(s)}

(***************************************************************************)
(* Python floats.  A binary64 value x with |x| < 2 that is a multiple of   *)
(* 2^-57 is the pair (hi, lo) with x * 2^57 = hi * 2^29 + lo and           *)
(* 0 <= lo < 2^29 (hi carries the sign).  Every literal and every sum of   *)
(* calculate_confidence is such a value.                                   *)
(***************************************************************************)
DblBase == 2^29

Norm(h, l) == [hi |-> h + (l \div DblBase), lo |-> l % DblBase]

ExactAdd(a, b) == Norm(a.hi + b.hi, a.lo + b.lo)

Neg(a) == Norm(0 - a.hi, 0 - a.lo)

Lt(a, b) == a.hi < b.hi \/ (a.hi = b.hi /\ a.lo < b.lo)

Le(a, b) == a = b \/ Lt(a, b)

Abs(a) == IF a.hi < 0 THEN Neg(a) ELSE a

\* units of 2^-57 in one unit in the last place of a value of this magnitude:
\* 53 significant bits, so [1,2) has ulp 2^-52, [0.5,1) has 2^-53, ...
Ulp(a) ==
    LET m == Abs(a).hi
    IN  IF m >= 2^28 THEN 32
        ELSE IF m >= 2^27 THEN 16
        ELSE IF m >= 2^26 THEN 8
        ELSE IF m >= 2^25 THEN 4
        ELSE IF m >= 2^24 THEN 2
        ELSE 1

\* round an exact value to binary64, to nearest, ties to even
RoundDbl(a) ==
    LET g == Ulp(a)
        q == a.lo \div g
        r == a.lo % g
        up == IF 2 * r > g \/ (2 * r = g /\ q % 2 = 1) THEN 1 ELSE 0
    IN  Norm(a.hi, (q + up) * g)

\* x + y and x - y of two floats
FAdd(a, b) == RoundDbl(ExactAdd(a, b))

FSub(a, b) == RoundDbl(ExactAdd(a, Neg(b)))

RECURSIVE ExactTimes(_, _)
ExactTimes(a, k) == IF k = 0 THEN Norm(0, 0) ELSE ExactAdd(a, ExactTimes(a, k - 1))

\* x * k of a float and a small non-negative int
FMulInt(a, k) == RoundDbl(ExactTimes(a, k))

\* the float a decimal literal h/100 denotes (h = 0 or 4 <= h <= 199):
\* h * 2^57 / 100 by long division, rounded to nearest, ties to even
Lit(h) ==
    LET x0 == h * 2^24
        q0 == x0 \div 25
        x1 == (x0 % 25) * 2^16
        q1 == x1 \div 25
        x2 == (x1 % 25) * 2^15
        q2 == x2 \div 25
        r2 == x2 % 25
        whole == ExactAdd(Norm(q0 * 4, 0), Norm(0, q1 * 2^15 + q2))
        g == Ulp(whole)
        q == whole.lo \div g
        rem == (whole.lo % g) * 25 + r2
        up == IF 2 * rem > g * 25 \/ (2 * rem = g * 25 /\ q % 2 = 1) THEN 1 ELSE 0
    IN  Norm(whole.hi, (q + up) * g)

FMax(a, b) == IF Lt(a, b) THEN b ELSE a

FMin(a, b) == IF Lt(b, a) THEN b ELSE a

(***************************************************************************)
(* The registry of validator.py                                            *)
(***************************************************************************)
\* node type -> the operations n8n knows for it, in the source's order
VALID_NODE_OPERATIONS ==
    ("n8n-nodes-base.googleDrive" :>
        <<"copy", "createFolder", "delete", "download", "list", "move",
          "share", "update", "upload">>)
    @@ ("n8n-nodes-base.googleSheets" :>
        <<"append", "appendOrUpdate", "clear", "create", "delete", "lookup",
          "read", "update">>)
    @@ ("n8n-nodes-base.gmail" :>
        <<"draft", "send", "get", "getAll", "delete", "addLabels",
          "removeLabels", "markAsRead", "markAsUnread">>)
    @@ ("n8n-nodes-base.telegram" :>
        <<"sendMessage", "sendPhoto", "sendDocument", "sendAudio",
          "sendVideo", "sendSticker", "sendAnimation", "sendLocation",
          "editMessageText", "deleteMessage", "pinChatMessage",
          "unpinChatMessage", "answerCallbackQuery", "getChat",
          "getChatMember", "leaveChat", "setChatDescription">>)
    @@ ("n8n-nodes-base.slack" :>
        <<"create", "archive", "close", "get", "getAll", "history", "invite",
          "join", "kick", "leave", "member", "open", "rename", "replies",
          "setPurpose", "setTopic", "unarchive", "post", "postEphemeral",
          "postMessage", "sendMessage", "update", "delete", "getPermalink",
          "upload", "getFile">>)
    @@ ("n8n-nodes-base.discord" :>
        <<"sendMessage", "getMessages", "deleteMessage">>)
    @@ ("n8n-nodes-base.shopify" :>
        <<"create", "delete", "get", "getAll", "update">>)
    @@ ("n8n-nodes-base.wooCommerce" :>
        <<"create", "delete", "get", "getAll", "update">>)
    @@ ("n8n-nodes-base.hubspot" :>
        <<"create", "delete", "get", "getAll", "update",
          "getRecentlyCreated", "getRecentlyModified", "search">>)
    @@ ("n8n-nodes-base.salesforce" :>
        <<"create", "delete", "get", "getAll", "update", "upsert">>)
    @@ ("n8n-nodes-base.postgres" :>
        <<"executeQuery", "insert", "update", "delete">>)
    @@ ("n8n-nodes-base.mysql" :>
        <<"executeQuery", "insert", "update", "delete">>)
    @@ ("n8n-nodes-base.mongodb" :>
        <<"aggregate", "delete", "find", "findAndReplace", "findAndUpdate",
          "insert", "update">>)
    @@ ("n8n-nodes-base.github" :>
        <<"create", "createRelease", "delete", "edit", "get", "getIssues",
          "getRepositories", "lock", "unlock">>)
    @@ ("n8n-nodes-base.gitlab" :>
        <<"create", "delete", "edit", "get", "getAll">>)
    @@ ("n8n-nodes-base.jira" :>
        <<"create", "delete", "get", "getAll", "notify", "update">>)
    @@ ("n8n-nodes-base.httpRequest" :>
        <<"delete", "get", "head", "options", "patch", "post", "put">>)
    @@ ("n8n-nodes-base.airtable" :>
        <<"append", "delete", "list", "read", "update">>)
    @@ ("n8n-nodes-base.notion" :>
        <<"append", "create", "get", "getAll", "search", "update">>)
    @@ ("n8n-nodes-base.openAi" :>
        <<"complete", "edit", "image", "moderate">>)

\* trigger nodes (no operation parameter)
TRIGGER_NODES == {
    "n8n-nodes-base.webhook", "n8n-nodes-base.telegramTrigger",
    "n8n-nodes-base.gmailTrigger", "n8n-nodes-base.googleDriveTrigger",
    "n8n-nodes-base.shopifyTrigger", "n8n-nodes-base.slackTrigger",
    "n8n-nodes-base.githubTrigger", "n8n-nodes-base.scheduleTrigger",
    "n8n-nodes-base.cronTrigger", "n8n-nodes-base.cron",
    "n8n-nodes-base.schedule", "n8n-nodes-base.interval",
    "n8n-nodes-base.manualTrigger", "n8n-nodes-base.airtableTrigger",
    "n8n-nodes-base.notionTrigger", "n8n-nodes-base.formTrigger",
    "n8n-nodes-base.wooCommerceTrigger", "n8n-nodes-base.stripeTrigger",
    "n8n-nodes-base.hubspotTrigger", "n8n-nodes-base.typeformTrigger",
    "n8n-nodes-base.jiraTrigger", "n8n-nodes-base.gitlabTrigger",
    "n8n-nodes-base.trelloTrigger"}

\* utility nodes (no operation parameter)
UTILITY_NODES == {
    "n8n-nodes-base.set", "n8n-nodes-base.if", "n8n-nodes-base.switch",
    "n8n-nodes-base.merge", "n8n-nodes-base.splitInBatches",
    "n8n-nodes-base.splitOut", "n8n-nodes-base.function",
    "n8n-nodes-base.functionItem", "n8n-nodes-base.code",
    "n8n-nodes-base.noOp", "n8n-nodes-base.stopAndError",
    "n8n-nodes-base.stickyNote", "n8n-nodes-base.filter",
    "n8n-nodes-base.sort", "n8n-nodes-base.limit",
    "n8n-nodes-base.removeDuplicates", "n8n-nodes-base.itemLists",
    "n8n-nodes-base.dateTime", "n8n-nodes-base.crypto", "n8n-nodes-base.xml",
    "n8n-nodes-base.html", "n8n-nodes-base.markdown",
    "n8n-nodes-base.rssFeedRead", "n8n-nodes-base.httpRequest",
    "n8n-nodes-base.wait", "n8n-nodes-base.executeCommand",
    "n8n-nodes-base.readBinaryFile", "n8n-nodes-base.writeBinaryFile",
    "n8n-nodes-base.spreadsheetFile", "n8n-nodes-base.convertToFile",
    "n8n-nodes-base.extractFromFile", "n8n-nodes-base.aggregate",
    "n8n-nodes-base.summarize", "n8n-nodes-base.compareDatasets"}

(***************************************************************************)
(* Issues.  The validator returns each issue as a string; here it is the   *)
(* sequence of the pieces its f-string joins, so that what a message names *)
(* and what it starts with can be read off.  sev records which list of the *)
(* source (errors or warnings) the message was appended to.                *)
(***************************************************************************)
Error(parts) == [sev |-> "error", parts |-> parts]

Warning(parts) == [sev |-> "warning", parts |-> parts]

\* str.startswith("Warning"): every message opens with a literal piece
StartsWithWarning(issue) == issue.parts[1] = "Warning"

\* the concatenation of lists[1..n]
RECURSIVE Flatten(_, _)
Flatten(lists, n) == IF n = 0 THEN <<>> ELSE Flatten(lists, n - 1) \o lists[n]

\* workflow.get("nodes", [])
NodesOf(w) == IF w.nodes.present THEN w.nodes.list ELSE <<>>

\* the three checks of one node in validate_required_fields
RequiredFieldErrors(node, i) ==
    (IF Falsy(node.name)
        THEN <<Error(<<"Node ", ToString(i), " missing 'name' field">>)>>
        ELSE <<>>)
    \o (IF Falsy(node.type)
        THEN <<Error(<<"Node ", ToString(i), " missing 'type' field">>)>>
        ELSE <<>>)
    \o (IF Falsy(node.id)
        THEN <<Error(<<"Node '", Get(node.name, ToString(i)), "' missing 'id' field">>)>>
        ELSE <<>>)

validate_required_fields(w) ==
    LET nodes == NodesOf(w)
        \* enumerate() counts from 0
        errors == Flatten([i \in 1..Len(nodes) |-> RequiredFieldErrors(nodes[i], i - 1)],
                          Len(nodes))
    IN  [is_valid |-> Len(errors) = 0, issues |-> errors]

\* valid_ops[:5]
FirstFive(s) == SubSeq(s, 1, IF Len(s) < 5 THEN Len(s) ELSE 5)

\* ', '.join(s), as pieces
JoinComma(s) == Flatten([i \in 1..Len(s) |-> IF i = 1 THEN <<s[i]>> ELSE <<", ", s[i]>>],
                        Len(s))

\* a variant that does not exempt trigger and utility nodes
OperationErrors_NoExemption(node) ==
    LET node_type == Get(node.type, "")
        node_name == Get(node.name, "Unknown")
        operation == node.operation
    IN  IF node_type \in DOMAIN VALID_NODE_OPERATIONS
        THEN IF ~Falsy(operation)
                /\ operation \notin Range(VALID_NODE_OPERATIONS[node_type])
             THEN <<Error(<<"[", node_name, "] Invalid operation '", operation,
                            "' for ", node_type, ". Valid: ">>
                          \o JoinComma(FirstFive(VALID_NODE_OPERATIONS[node_type]))
                          \o <<"...">>)>>
             ELSE <<>>
        ELSE <<>>

\* a variant that reports an unrecognised node type as an error
OperationErrors_UnknownIsError(node) ==
    LET node_type == Get(node.type, "")
        node_name == Get(node.name, "Unknown")
        operation == node.operation
    IN  IF node_type \in TRIGGER_NODES \/ node_type \in UTILITY_NODES
        THEN <<>>
        ELSE IF node_type \in DOMAIN VALID_NODE_OPERATIONS
        THEN IF ~Falsy(operation)
                /\ operation \notin Range(VALID_NODE_OPERATIONS[node_type])
             THEN <<Error(<<"[", node_name, "] Invalid operation '", operation,
                            "' for ", node_type, ". Valid: ">>
                          \o JoinComma(FirstFive(VALID_NODE_OPERATIONS[node_type]))
                          \o <<"...">>)>>
             ELSE <<>>
        ELSE <<Error(<<"[", node_name, "] Unknown node type: ", node_type>>)>>

\* the body of validate_operations' loop for one node: what it appends to errors
OperationErrors(node) ==
    LET node_type == Get(node.type, "")
        node_name == Get(node.name, "Unknown")
        operation == node.operation
    IN  IF node_type \in TRIGGER_NODES \/ node_type \in UTILITY_NODES
        THEN <<>>
        ELSE IF node_type \in DOMAIN VALID_NODE_OPERATIONS
        THEN IF ~Falsy(operation)
                /\ operation \notin Range(VALID_NODE_OPERATIONS[node_type])
             THEN <<Error(<<"[", node_name, "] Invalid operation '", operation,
                            "' for ", node_type, ". Valid: ">>
                          \o JoinComma(FirstFive(VALID_NODE_OPERATIONS[node_type]))
                          \o <<"...">>)>>
             ELSE <<>>
        ELSE <<>>

\* the body of validate_operations' loop for one node: what it appends to warnings
OperationWarnings(node) ==
    LET node_type == Get(node.type, "")
        node_name == Get(node.name, "Unknown")
    IN  IF node_type \in TRIGGER_NODES \/ node_type \in UTILITY_NODES
        THEN <<>>
        ELSE IF node_type \in DOMAIN VALID_NODE_OPERATIONS
        THEN <<>>
        ELSE <<Warning(<<"[", node_name, "] Unknown node type: ", node_type>>)>>

validate_operations(w) ==
    LET nodes == NodesOf(w)
        errors == Flatten([i \in 1..Len(nodes) |-> OperationErrors(nodes[i])], Len(nodes))
        warnings == Flatten([i \in 1..Len(nodes) |-> OperationWarnings(nodes[i])], Len(nodes))
    IN  [is_valid |-> Len(errors) = 0, issues |-> errors \o warnings]

\* {node.get("name") for node in nodes}
NodeNames(w) == {NodesOf(w)[i].name : i \in 1..Len(NodesOf(w))}

\* the inner loop over one output_list
TargetError(target, node_names) ==
    IF ~Falsy(target) /\ target \notin node_names
    THEN <<Error(<<"Connection target '", target, "' not found in nodes">>)>>
    ELSE <<>>

TargetErrors(output_list, node_names) ==
    Flatten([i \in 1..Len(output_list) |-> TargetError(output_list[i], node_names)],
            Len(output_list))

\* the loop over outputs["main"]
MainErrors(main, node_names) ==
    Flatten([i \in 1..Len(main) |-> TargetErrors(main[i], node_names)], Len(main))

\* a variant that goes on to the targets of a source it did not find
ConnectionEntry_NoContinue(entry, node_names) ==
    LET source_error ==
            IF entry.source \notin node_names
            THEN <<Error(<<"Connection source '", entry.source, "' not found in nodes">>)>>
            ELSE <<>>
    IN  IF entry.outputs.kind = "null"
        THEN [raised |-> TRUE, errors |-> <<>>]
        ELSE IF entry.outputs.hasMain
        THEN [raised |-> FALSE,
              errors |-> source_error \o MainErrors(entry.outputs.main, node_names)]
        ELSE [raised |-> FALSE, errors |-> source_error]

\* one pass of the loop over connections.items(); raised: the statement threw
ConnectionEntry(entry, node_names) ==
    IF entry.source \notin node_names
    THEN [raised |-> FALSE,
          errors |-> <<Error(<<"Connection source '", entry.source,
                              "' not found in nodes">>)>>]
    ELSE IF entry.outputs.kind = "null"
    THEN [raised |-> TRUE, errors |-> <<>>]
    ELSE IF entry.outputs.hasMain
    THEN [raised |-> FALSE,
          errors |-> MainErrors(entry.outputs.main, node_names)]
    ELSE [raised |-> FALSE, errors |-> <<>>]

RECURSIVE ConnectionEntries(_, _, _)
ConnectionEntries(conn_entries, n, node_names) ==
    IF n = 0 THEN [raised |-> FALSE, errors |-> <<>>]
    ELSE LET before == ConnectionEntries(conn_entries, n - 1, node_names)
             this == ConnectionEntry(conn_entries[n], node_names)
         IN  [raised |-> before.raised \/ this.raised,
              errors |-> before.errors \o this.errors]

\* connections.items() exists: the value is a dict (an absent key defaults to {})
HasItems(connections) == connections.kind \in {"absent", "dict"}

validate_connections(w) ==
    LET connections == w.connections
        scan == ConnectionEntries(connections.entries, Len(connections.entries),
                                  NodeNames(w))
    IN  IF ~HasItems(connections) \/ scan.raised
        THEN [raised |-> TRUE, is_valid |-> FALSE, issues |-> <<>>]
        ELSE [raised |-> FALSE, is_valid |-> Len(scan.errors) = 0,
              issues |-> scan.errors]

\* a variant that tests only that the key is there ("nodes" in workflow)
NodesTruthy_KeyOnly(w) == w.nodes.present

\* Python truthiness of a container: absent (None), null and empty are falsy
NodesTruthy(w) == w.nodes.present /\ Len(w.nodes.list) > 0

ConnectionsTruthy(w) ==
    \/ w.connections.kind = "dict" /\ Len(w.connections.entries) > 0
    \/ w.connections.kind = "list" /\ w.connections.items > 0

\* len([i for i in all_issues if not i.startswith("Warning")])
ErrorCount(all_issues) ==
    Cardinality({i \in 1..Len(all_issues) : ~StartsWithWarning(all_issues[i])})

\* the summary string, as the pieces its f-string joins
Summary(is_valid, all_issues) ==
    IF is_valid /\ Len(all_issues) = 0
    THEN <<"VALID: All checks passed">>
    ELSE IF is_valid
    THEN <<"VALID with warnings: ", ToString(Len(all_issues)), " issue(s)">>
    ELSE <<"INVALID: ", ToString(ErrorCount(all_issues)), " error(s)">>

\* a variant that forgets the connection check
OverallValid_NoConns(valid_fields, valid_ops, valid_conns) == valid_fields /\ valid_ops

\* is_valid = valid_fields and valid_ops and valid_conns
OverallValid(valid_fields, valid_ops, valid_conns) ==
    valid_fields /\ valid_ops /\ valid_conns

\* the locals valid_fields, valid_ops, valid_conns and op_errors, conn_errors
Locals(fields, ops, conns) ==
    [valid_fields |-> fields.is_valid, valid_ops |-> ops.is_valid,
     valid_conns |-> conns.is_valid, field_errors |-> fields.issues,
     op_errors |-> ops.issues, conn_errors |-> conns.issues]

NoLocals ==
    [valid_fields |-> FALSE, valid_ops |-> FALSE, valid_conns |-> FALSE,
     field_errors |-> <<>>, op_errors |-> <<>>, conn_errors |-> <<>>]

\* (is_valid, all_issues, summary) and the locals at the return, or raised
\* when a statement threw
validate_workflow(w) ==
    IF ~NodesTruthy(w)
    THEN [raised |-> FALSE, is_valid |-> FALSE,
          issues |-> <<Error(<<"Workflow has no nodes">>)>>,
          summary |-> <<"INVALID: No nodes">>, locals |-> NoLocals]
    ELSE
    LET no_connections ==
            IF ~ConnectionsTruthy(w)
            THEN <<Warning(<<"Warning", ": Workflow has no connections (nodes not linked)">>)>>
            ELSE <<>>
        fields == validate_required_fields(w)
        ops == validate_operations(w)
        conns == validate_connections(w)
        all_issues == no_connections \o fields.issues \o ops.issues \o conns.issues
        is_valid == OverallValid(fields.is_valid, ops.is_valid, conns.is_valid)
    IN  IF conns.raised
        THEN [raised |-> TRUE, is_valid |-> FALSE, issues |-> <<>>, summary |-> <<>>,
              locals |-> NoLocals]
        ELSE [raised |-> FALSE, is_valid |-> is_valid, issues |-> all_issues,
              summary |-> Summary(is_valid, all_issues),
              locals |-> Locals(fields, ops, conns)]

(***************************************************************************)
(* calculate_confidence.  top_similarity is given in hundredths (a decimal *)
(* with two places); the score is a Python float.                          *)
(***************************************************************************)
\* f"{x:.2f}" of x = h/100
Fmt2(h) ==
    LET a == IF h < 0 THEN 0 - h ELSE h
    IN  <<IF h < 0 THEN "-" ELSE "", ToString(a \div 100), ".",
          ToString((a % 100) \div 10), ToString(a % 10)>>

\* a contribution: score += amount (sign 1), score -= amount (sign -1) or nothing
Plus(amount, reason) == [sign |-> 1, amount |-> amount, reason |-> reason]

Minus(amount, reason) == [sign |-> -1, amount |-> amount, reason |-> reason]

Nothing == [sign |-> 0, amount |-> Lit(0), reason |-> <<>>]

Apply(score, c) ==
    IF c.sign = 1 THEN FAdd(score, c.amount)
    ELSE IF c.sign = -1 THEN FSub(score, c.amount)
    ELSE score

\* Factor 1: validation passes
ValidationFactor(is_valid) ==
    IF is_valid THEN Plus(Lit(20), <<"+0.2 validation passed">>)
    ELSE Minus(Lit(20), <<"-0.2 validation failed">>)

\* a variant whose high band starts at 0.7 itself
SimilarityFactor_InclusiveHigh(sim) ==
    IF sim >= 70 THEN Plus(Lit(15), <<"+0.15 high similarity (">> \o Fmt2(sim) \o <<")">>)
    ELSE IF sim > 50 THEN Plus(Lit(5), <<"+0.05 medium similarity (">> \o Fmt2(sim) \o <<")">>)
    ELSE IF sim < 30 THEN Minus(Lit(10), <<"-0.1 low similarity (">> \o Fmt2(sim) \o <<")">>)
    ELSE Nothing

\* Factor 2: similarity to the references
SimilarityFactor(sim) ==
    IF sim > 70 THEN Plus(Lit(15), <<"+0.15 high similarity (">> \o Fmt2(sim) \o <<")">>)
    ELSE IF sim > 50 THEN Plus(Lit(5), <<"+0.05 medium similarity (">> \o Fmt2(sim) \o <<")">>)
    ELSE IF sim < 30 THEN Minus(Lit(10), <<"-0.1 low similarity (">> \o Fmt2(sim) \o <<")">>)
    ELSE Nothing

\* Factor 3: workflow complexity
ComplexityFactor(node_count) ==
    IF node_count <= 3
    THEN Plus(Lit(10), <<"+0.1 simple workflow (", ToString(node_count), " nodes)">>)
    ELSE IF node_count > 8
    THEN Minus(Lit(10), <<"-0.1 complex workflow (", ToString(node_count), " nodes)">>)
    ELSE Nothing

\* the nodes whose type is in none of the three registries
UnknownTypes(nodes) ==
    Cardinality({i \in 1..Len(nodes) :
        /\ nodes[i].type \notin DOMAIN VALID_NODE_OPERATIONS
        /\ nodes[i].type \notin TRIGGER_NODES
        /\ nodes[i].type \notin UTILITY_NODES})

\* Factor 4: all node types recognized
RecognitionFactor(unknown_types) ==
    IF unknown_types = 0 THEN Plus(Lit(5), <<"+0.05 all node types recognized">>)
    ELSE Minus(FMulInt(Lit(5), unknown_types),
               <<"-">> \o Fmt2(5 * unknown_types) \o <<" unknown node types">>)

\* a variant that clamps from above only
Clamp_NoFloor(score) == FMin(Lit(100), score)

\* max(0.0, min(1.0, score))
Clamp(score) == FMax(Lit(0), FMin(Lit(100), score))

Level(score) ==
    IF Le(Lit(80), score) THEN "HIGH"
    ELSE IF Le(Lit(60), score) THEN "MEDIUM"
    ELSE "LOW"

\* a variant that lists the complexity contribution before the similarity one
Reasons_ComplexityFirst(cs) ==
    LET keep(c) == IF c.sign = 0 THEN <<>> ELSE <<c.reason>>
    IN  keep(cs[1]) \o keep(cs[3]) \o keep(cs[2]) \o keep(cs[4])

\* the reasons list: one entry per contribution that fired
Reasons(cs) ==
    LET keep(c) == IF c.sign = 0 THEN <<>> ELSE <<c.reason>>
    IN  keep(cs[1]) \o keep(cs[2]) \o keep(cs[3]) \o keep(cs[4])

\* (score, explanation), or raised when validate_workflow threw
calculate_confidence(w, sim) ==
    LET v == validate_workflow(w)
        nodes == NodesOf(w)
        cs == <<ValidationFactor(v.is_valid), SimilarityFactor(sim),
                ComplexityFactor(Len(nodes)), RecognitionFactor(UnknownTypes(nodes))>>
        score == Clamp(Apply(Apply(Apply(Apply(Lit(50), cs[1]), cs[2]), cs[3]), cs[4]))
    IN  IF v.raised
        THEN [raised |-> TRUE, score |-> Lit(0), level |-> "", reasons |-> <<>>]
        ELSE [raised |-> FALSE, score |-> score, level |-> Level(score),
              reasons |-> Reasons(cs)]

(***************************************************************************)
(* The decoded graphs the validator is run on                              *)
(***************************************************************************)
MaxNodes == 2
MaxPad == 8
MaxConns == 2
MaxTargets == 2

SeqsUpTo(S, n) == UNION {[1..k -> S] : k \in 0..n}

Node(id, name, type, operation) ==
    [id |-> id, name |-> name, type |-> type, operation |-> operation]

TelegramTrigger == "n8n-nodes-base.telegramTrigger"
Telegram == "n8n-nodes-base.telegram"
SetNode == "n8n-nodes-base.set"
HttpRequest == "n8n-nodes-base.httpRequest"
AgentNode == "@n8n/n8n-nodes-langchain.agent"
\* the Telegram and Set nodes under the namespace of another package
CommunityTelegram == "n8n-nodes-community.telegram"
CommunitySet == "n8n-nodes-community.set"

\* the two nodes of the source's CLI test
TriggerNode == Node("1", "Telegram Trigger", TelegramTrigger, NONE)
ReplyNode == Node("2", "Reply", Telegram, "sendMessage")

NodePool ==
    { TriggerNode, ReplyNode,
      Node("2", "Reply", Telegram, "doSomethingInvalid"),
      Node("2", "Reply", Telegram, ""),
      Node("2", "Reply", Telegram, NONE),
      Node("3", "Fetch", HttpRequest, "doSomethingInvalid"),
      Node("1", "Telegram Trigger", TelegramTrigger, "doSomethingInvalid"),
      Node("4", "Edit", SetNode, "doSomethingInvalid"),
      Node("5", "Reply", AgentNode, "sendMessage"),
      Node("2", NONE, Telegram, "sendMessage"),
      Node("2", "", Telegram, "doSomethingInvalid"),
      Node(NONE, "Reply", Telegram, "sendMessage"),
      Node("", NONE, Telegram, "sendMessage"),
      Node("2", "Reply", NONE, "sendMessage"),
      Node("2", "Reply", "", NONE),
      Node("6", "Answer", CommunityTelegram, "doSomethingInvalid"),
      Node("9", "Assign", CommunitySet, "doSomethingInvalid") }

\* padding that makes a graph long: known utility nodes and unknown-type nodes
KnownPad == Node("7", "Edit", SetNode, NONE)
UnknownPad == Node("8", "Agent", AgentNode, NONE)

Pad(unknown, known) == [i \in 1..(unknown + known) |->
                            IF i <= unknown THEN UnknownPad ELSE KnownPad]

NodesAbsent == [present |-> FALSE, list |-> <<>>]
Nodes(list) == [present |-> TRUE, list |-> list]

\* the value of the "connections" key
ConnAbsent == [kind |-> "absent", entries |-> <<>>, items |-> 0]
ConnNull == [kind |-> "null", entries |-> <<>>, items |-> 0]
ConnList(n) == [kind |-> "list", entries |-> <<>>, items |-> n]
ConnDict(conn_entries) == [kind |-> "dict", entries |-> conn_entries, items |-> 0]

\* the value under one source key
OutNull == [kind |-> "null", hasMain |-> FALSE, main |-> <<>>]
OutNoMain == [kind |-> "dict", hasMain |-> FALSE, main |-> <<>>]
OutMain(main) == [kind |-> "dict", hasMain |-> TRUE, main |-> main]

Entry(source, outputs) == [source |-> source, outputs |-> outputs]

SourcePool == {"Telegram Trigger", "Reply", "Ghost", "Phantom"}
TargetPool == {"Reply", "Ghost", NONE}

\* the CLI test's connections: Telegram Trigger -> Reply
TestConnections == ConnDict(<<Entry("Telegram Trigger", OutMain(<<<<"Reply">>>>))>>)

SmallConns ==
    { ConnAbsent, ConnList(1), TestConnections,
      ConnDict(<<Entry("Reply", OutMain(<<<<"Ghost">>>>))>>) }

\* outputs["main"]: one branch of several targets, or two branches
RichMains ==
    SeqsUpTo(SeqsUpTo(TargetPool, MaxTargets), 1)
    \cup {<<b1, b2>> : b1 \in SeqsUpTo(TargetPool, 1), b2 \in SeqsUpTo(TargetPool, 1)}

\* one source with any output map
RichOutputs == {OutNull, OutNoMain} \cup {OutMain(m) : m \in RichMains}

\* several sources (a dict: distinct keys), each with a one-target output map
SimpleOutputs == {OutNull, OutMain(<<<<"Reply">>>>), OutMain(<<<<"Ghost">>>>)}

ConnPool ==
    {ConnAbsent, ConnNull, ConnList(0), ConnList(1)}
    \cup {ConnDict(<<Entry(s, o)>>) : s \in SourcePool, o \in RichOutputs}
    \cup {ConnDict(es) : es \in
            {e \in SeqsUpTo({Entry(s, o) : s \in SourcePool, o \in SimpleOutputs}, MaxConns) :
                \A i, j \in 1..Len(e) : i # j => e[i].source # e[j].source}}

Workflow(nodes, connections) == [nodes |-> nodes, connections |-> connections]

\* top_similarity, in hundredths
SimPool == {-25, 29, 30, 50, 51, 70, 71, 85}

\* any nodes, a few connection shapes
AnyNodes ==
    \E n \in {NodesAbsent} \cup {Nodes(l) : l \in SeqsUpTo(NodePool, MaxNodes)} :
    \E c \in SmallConns :
        /\ workflow = Workflow(n, c)
        /\ top_similarity = 85

\* no nodes, or the test's nodes (and a nameless one), any connections
AnyConnections ==
    \E n \in {NodesAbsent, Nodes(<<>>), Nodes(<<TriggerNode, ReplyNode>>),
              Nodes(<<TriggerNode, Node("2", NONE, Telegram, "sendMessage")>>)} :
    \E c \in ConnPool :
        /\ workflow = Workflow(n, c)
        /\ top_similarity = 85

\* graphs of every length, any similarity
AnyLength ==
    \E l \in SeqsUpTo(NodePool, 1) :
    \E u \in 0..MaxPad : \E k \in 0..(MaxPad - u) :
    \E c \in {ConnAbsent, TestConnections} :
    \E s \in SimPool :
        /\ workflow = Workflow(Nodes(l \o Pad(u, k)), c)
        /\ top_similarity = s

(***************************************************************************)
(* The run: Step 4 of the generate pipeline                                *)
(***************************************************************************)
\* ids, documents and metadatas: three lists kept side by side
NoPool == [ids |-> <<>>, documents |-> <<>>, metadatas |-> <<>>]

NoValidation ==
    [raised |-> FALSE, is_valid |-> FALSE, issues |-> <<>>, summary |-> <<>>,
     locals |-> NoLocals]
NoConfidence == [raised |-> FALSE, score |-> Lit(0), level |-> "", reasons |-> <<>>]

\* no search in progress: Step 4 is entered with the graph and the similarity
NoSearch ==
    /\ query = ""
    /\ n_results = 0
    /\ collection = <<>>
    /\ pool = NoPool
    /\ backup_queries = 0
    /\ final = NoPool
    /\ results_for_rerank = <<>>
    /\ results = <<>>

Init ==
    /\ (AnyNodes \/ AnyConnections \/ AnyLength)
    /\ pc = "start"
    /\ validation = NoValidation
    /\ confidence = NoConfidence
    /\ NoSearch
    /\ NoExt

\* adv_valid, issues, summary = validate_workflow(workflow)
ValidateWorkflow ==
    /\ pc = "start"
    /\ validation' = validate_workflow(workflow)
    /\ pc' = IF validation'.raised THEN "raised" ELSE "validated"
    /\ UNCHANGED <<workflow, top_similarity, confidence>>
    /\ UNCHANGED searchVars
    /\ UNCHANGED extVars

\* confidence, conf_explanation = calculate_confidence(workflow, top_similarity)
CalculateConfidence ==
    /\ pc = "validated"
    /\ confidence' = calculate_confidence(workflow, top_similarity)
    /\ pc' = "scored"
    /\ UNCHANGED <<workflow, top_similarity, validation>>
    /\ UNCHANGED searchVars
    /\ UNCHANGED extVars

Next == ValidateWorkflow \/ CalculateConfidence

Spec == Init /\ [][Next]_vars

(***************************************************************************)
(* Properties of the validator                                             *)
(***************************************************************************)
\* validate_workflow has returned (it did not throw) and its result is in validation
Returned == pc \in {"validated", "scored"}

NodeList == NodesOf(workflow)

NameSet == {NodeList[i].name : i \in 1..Len(NodeList)}

\* the graph of the data model: connections, when given, map a source name to
\* an output map
WellShaped ==
    /\ workflow.connections.kind \in {"absent", "dict"}
    /\ \A i \in 1..Len(workflow.connections.entries) :
          workflow.connections.entries[i].outputs.kind = "dict"

HasNodes == workflow.nodes.present /\ workflow.nodes.list # <<>>

Whitelisted(type) == type \in DOMAIN VALID_NODE_OPERATIONS

Exempt(type) == type \in TRIGGER_NODES \cup UTILITY_NODES

UsesOperationOutsideWhitelist(node) ==
    /\ Whitelisted(node.type)
    /\ node.operation # NONE
    /\ \A k \in 1..Len(VALID_NODE_OPERATIONS[node.type]) :
          VALID_NODE_OPERATIONS[node.type][k] # node.operation

HardErrors(issues) == {i \in 1..Len(issues) : issues[i].sev = "error"}

Warnings(issues) == {i \in 1..Len(issues) : issues[i].sev = "warning"}

\* the hypothesis of the soundness property, in its own words
SoundGraph ==
    /\ WellShaped
    /\ \A i \in 1..Len(workflow.connections.entries) :
          LET e == workflow.connections.entries[i]
          IN  /\ e.source \in NameSet
              /\ \A b \in 1..Len(e.outputs.main) : \A k \in 1..Len(e.outputs.main[b]) :
                    e.outputs.main[b][k] # NONE => e.outputs.main[b][k] \in NameSet
    /\ \A i \in 1..Len(NodeList) :
          /\ NodeList[i].id \notin {NONE, ""}
          /\ NodeList[i].name \notin {NONE, ""}
          /\ NodeList[i].type \notin {NONE, ""}
          /\ ~UsesOperationOutsideWhitelist(NodeList[i])

TestWorkflow == Workflow(Nodes(<<TriggerNode, ReplyNode>>), TestConnections)

\* C1 as stated: every graph that meets the soundness hypothesis validates
\* with isValid = true (a graph without nodes meets it vacuously)
C1_AsStated == (pc # "start" /\ SoundGraph) => (Returned /\ validation.is_valid)

\* C1, amended: every graph with at least one node that meets the soundness
\* hypothesis validates with isValid = true, unknown node types and other
\* warnings notwithstanding; the two-node test graph validates with no issue
\* at all and the summary "VALID: All checks passed"
C1_SoundGraphIsValid ==
    /\ (pc # "start" /\ HasNodes /\ SoundGraph) => (Returned /\ validation.is_valid)
    /\ (pc # "start" /\ workflow = TestWorkflow) =>
          /\ validation.is_valid
          /\ validation.issues = <<>>
          /\ validation.summary = <<"VALID: All checks passed">>

\* a sound, wired graph with a node of unknown type has been validated
C1_Witness ==
    /\ pc = "validated"
    /\ HasNodes /\ SoundGraph
    /\ Len(workflow.connections.entries) > 0
    /\ \E i \in 1..Len(NodeList) : ~Whitelisted(NodeList[i].type) /\ ~Exempt(NodeList[i].type)
    /\ Warnings(validation.issues) # {}

\* C2: a graph whose nodes are absent or empty validates to isValid = false
\* with the one fatal issue and nothing else, whatever its connections are
C2_NoNodesShortCircuits ==
    (pc # "start" /\ (~workflow.nodes.present \/ Len(workflow.nodes.list) = 0)) =>
        /\ Returned
        /\ ~validation.is_valid
        /\ validation.issues = <<Error(<<"Workflow has no nodes">>)>>
        /\ validation.summary = <<"INVALID: No nodes">>

\* an empty node list with connections that are not even a mapping
C2_Witness ==
    /\ pc = "validated"
    /\ workflow.nodes.present /\ workflow.nodes.list = <<>>
    /\ workflow.connections.kind = "list"
    /\ Len(validation.issues) = 1

\* C3: on a graph with nodes, isValid is the conjunction of the three checks'
\* results, and it is false exactly when a hard error was issued
C3_ValidIffNoHardError ==
    (Returned /\ HasNodes) =>
        /\ validation.is_valid =
              (/\ validation.locals.valid_fields
               /\ validation.locals.valid_ops
               /\ validation.locals.valid_conns)
        /\ validation.locals.valid_fields = (validation.locals.field_errors = <<>>)
        /\ validation.locals.valid_ops = (HardErrors(validation.locals.op_errors) = {})
        /\ validation.locals.valid_conns = (validation.locals.conn_errors = <<>>)
        /\ validation.is_valid = (HardErrors(validation.issues) = {})

\* a valid graph that carries both kinds of warning
C3_Witness ==
    /\ pc = "validated"
    /\ validation.is_valid
    /\ \E i \in 1..Len(validation.issues) : StartsWithWarning(validation.issues[i])
    /\ Warnings(validation.locals.op_errors) # {}

\* C4: the summary is "VALID: All checks passed" exactly when the graph is
\* valid without issues, "VALID with warnings: N issue(s)" when it is valid
\* with N >= 1 warnings, and "INVALID: N error(s)" when it is invalid, N being
\* the number of hard errors (no warning of either kind is counted)
C4_SummaryCountsHardErrors ==
    (Returned /\ HasNodes) =>
        validation.summary =
            IF validation.is_valid /\ validation.issues = <<>>
            THEN <<"VALID: All checks passed">>
            ELSE IF validation.is_valid
            THEN <<"VALID with warnings: ", ToString(Len(validation.issues)), " issue(s)">>
            ELSE <<"INVALID: ", ToString(Cardinality(HardErrors(validation.issues))),
                   " error(s)">>

\* C5: a node whose type is a key of the operation whitelist and whose
\* operation is given (and not empty) and not in that type's list makes the
\* graph invalid, with a hard error that names the node and the operation
C5_InvalidOperationIsError ==
    (Returned /\ HasNodes) =>
        \A i \in 1..Len(NodeList) :
            (UsesOperationOutsideWhitelist(NodeList[i]) /\ NodeList[i].operation # "") =>
                /\ ~validation.is_valid
                /\ \E k \in HardErrors(validation.issues) :
                      /\ Len(validation.issues[k].parts) >= 4
                      /\ validation.issues[k].parts[2] = Get(NodeList[i].name, "Unknown")
                      /\ validation.issues[k].parts[3] = "] Invalid operation '"
                      /\ validation.issues[k].parts[4] = NodeList[i].operation

UnknownType(type) == ~Whitelisted(type) /\ ~Exempt(type)

\* C6: validate_operations issues nothing for a trigger or utility node
\* whatever its operation, and exactly one warning and no error for a node
\* whose type is in none of the three registries; a graph whose only findings
\* are such warnings is valid
C6_ExemptAndUnknownTypes ==
    (Returned /\ HasNodes) =>
        LET ops == validation.locals.op_errors
        IN  /\ Cardinality(Warnings(ops)) =
                  Cardinality({i \in 1..Len(NodeList) : UnknownType(NodeList[i].type)})
            /\ \A k \in Warnings(ops) :
                  /\ ops[k].parts[3] = "] Unknown node type: "
                  /\ UnknownType(ops[k].parts[4])
                  /\ \E i \in 1..Len(NodeList) :
                        /\ UnknownType(NodeList[i].type)
                        /\ ops[k].parts[2] = Get(NodeList[i].name, "Unknown")
                        /\ ops[k].parts[4] = Get(NodeList[i].type, "")
            /\ \A k \in HardErrors(ops) :
                  /\ ops[k].parts[5] = "' for "
                  /\ Whitelisted(ops[k].parts[6]) /\ ~Exempt(ops[k].parts[6])
            /\ (\A i \in 1..Len(NodeList) :
                    Exempt(NodeList[i].type) \/ UnknownType(NodeList[i].type))
                => HardErrors(ops) = {} /\ validation.locals.valid_ops
            /\ (validation.locals.field_errors = <<>> /\ validation.locals.conn_errors = <<>>
                /\ HardErrors(ops) = {}) => validation.is_valid

\* a valid graph of a trigger node with an operation no registry knows and a
\* node of unknown type: one warning, nothing else from validate_operations
C6_Witness ==
    /\ pc = "validated"
    /\ validation.is_valid
    /\ Len(validation.locals.op_errors) = 1
    /\ \E i, j \in 1..Len(NodeList) :
          /\ NodeList[i].type \in TRIGGER_NODES
          /\ NodeList[i].operation = "doSomethingInvalid"
          /\ UnknownType(NodeList[j].type)

\* the places (entry, branch, position) of the connection targets
TargetPlaces ==
    LET es == workflow.connections.entries
    IN  UNION {UNION {{<<i, b, k>> : k \in 1..Len(es[i].outputs.main[b])} :
                        b \in 1..Len(es[i].outputs.main)} :
               i \in 1..Len(es)}

TargetAt(p) == workflow.connections.entries[p[1]].outputs.main[p[2]][p[3]]

SourceAt(i) == workflow.connections.entries[i].source

DanglingSources ==
    {i \in 1..Len(workflow.connections.entries) : SourceAt(i) \notin NameSet}

DanglingTargets == {p \in TargetPlaces : TargetAt(p) # NONE /\ TargetAt(p) \notin NameSet}

SourceError(name) == Error(<<"Connection source '", name, "' not found in nodes">>)

DanglingTargetError(name) == Error(<<"Connection target '", name, "' not found in nodes">>)

C8_NeverRaises ==
    pc # "start" =>
        /\ pc # "raised"
        /\ (~HasNodes \/ ~WellShaped) =>
              ~validation.is_valid /\ Len(validation.issues) = 1

\* C9: the score calculate_confidence returns lies in [0, 1]; on a graph of
\* the data model validate_workflow returns, so a score is produced
C9_ScoreInUnitInterval ==
    /\ pc = "scored" =>
          /\ ~confidence.raised
          /\ Le(Lit(0), confidence.score)
          /\ Le(confidence.score, Lit(100))
    /\ (pc # "start" /\ WellShaped) => pc # "raised"

\* an invalid graph of nine nodes, eight of unknown type, scored at a low
\* similarity: the sum is below zero and the score is 0.0
C9_Witness ==
    /\ pc = "scored"
    /\ ~validation.is_valid
    /\ top_similarity < 30
    /\ Len(NodeList) > 8
    /\ Cardinality({i \in 1..Len(NodeList) : UnknownType(NodeList[i].type)}) >= 8
    /\ confidence.score = Lit(0)

\* 0.5 + V + S + C + U of the claim, in hundredths
ExpectedHundredths ==
    LET s == top_similarity
        n == Len(NodeList)
        unknown == Cardinality({i \in 1..Len(NodeList) : UnknownType(NodeList[i].type)})
        V == IF validation.is_valid THEN 20 ELSE -20
        S == IF s > 70 THEN 15
             ELSE IF 50 < s /\ s <= 70 THEN 5
             ELSE IF s < 30 THEN -10
             ELSE 0
        C == IF n <= 3 THEN 10 ELSE IF n > 8 THEN -10 ELSE 0
        U == IF unknown = 0 THEN 5 ELSE 0 - 5 * unknown
        sum == 50 + V + S + C + U
    IN  IF sum < 0 THEN 0 ELSE IF sum > 100 THEN 100 ELSE sum

\* two floats less than 2^-51 apart
Near(a, b) ==
    LET d == Abs(ExactAdd(a, Neg(b)))
    IN  d.hi = 0 /\ d.lo < 64

\* C10: the score is clamp(0.5 + V + S + C + U), up to the rounding of the
\* float sum; the valid two-node test graph at similarity 0.85 scores 1.0
C10_ScoreIsClampedSum ==
    pc = "scored" =>
        /\ Near(confidence.score, Lit(ExpectedHundredths))
        /\ (workflow = TestWorkflow /\ top_similarity = 85) =>
              confidence.score = Lit(100) /\ confidence.level = "HIGH"

\* a valid graph of 4 to 8 nodes, one of unknown type, at similarity 0.7:
\* 0.5 + 0.2 + 0.05 + 0 - 0.05
C10_Witness ==
    /\ pc = "scored"
    /\ validation.is_valid
    /\ top_similarity = 70
    /\ Len(NodeList) \in 4..8
    /\ Cardinality({i \in 1..Len(NodeList) : UnknownType(NodeList[i].type)}) = 1
    /\ Near(confidence.score, Lit(70))

\* which of the four contributions a reason text belongs to (0: none)
ReasonKind(r) ==
    IF r[1] \in {"+0.2 validation passed", "-0.2 validation failed"} THEN 1
    ELSE IF r[1] \in {"+0.15 high similarity (", "+0.05 medium similarity (",
                      "-0.1 low similarity ("} THEN 2
    ELSE IF r[1] \in {"+0.1 simple workflow (", "-0.1 complex workflow ("} THEN 3
    ELSE IF r[1] = "+0.05 all node types recognized"
            \/ r[Len(r)] = " unknown node types" THEN 4
    ELSE 0

ReasonKinds == [i \in 1..Len(confidence.reasons) |-> ReasonKind(confidence.reasons[i])]

\* the contributions that fire on the scored input, by the case analysis of
\* the four factors
FiredKinds ==
    {1, 4}
    \cup (IF top_similarity > 50 \/ top_similarity < 30 THEN {2} ELSE {})
    \cup (IF Len(NodeList) <= 3 \/ Len(NodeList) > 8 THEN {3} ELSE {})

\* C11: the explanation's label is HIGH when the clamped score is at least
\* 0.8, MEDIUM when it is at least 0.6 and below 0.8, LOW otherwise; the
\* contributions that fired follow in the order validation, similarity,
\* complexity, recognition, and one that did not fire is left out
C11_LabelAndReasonOrder ==
    pc = "scored" =>
        /\ confidence.level = "HIGH" <=> Le(Lit(80), confidence.score)
        /\ confidence.level = "MEDIUM" <=>
              Le(Lit(60), confidence.score) /\ Lt(confidence.score, Lit(80))
        /\ confidence.level = "LOW" <=> Lt(confidence.score, Lit(60))
        /\ \A i \in 1..Len(ReasonKinds) : ReasonKinds[i] \in 1..4
        /\ \A i, j \in 1..Len(ReasonKinds) : i < j => ReasonKinds[i] < ReasonKinds[j]
        /\ Range(ReasonKinds) = FiredKinds
        /\ confidence.reasons[1] =
              IF validation.is_valid THEN <<"+0.2 validation passed">>
              ELSE <<"-0.2 validation failed">>

\* three nodes of unknown type, valid, at a high similarity: all four
\* contributions fire, the float sum is just below 0.8 and the label is MEDIUM
C11_Witness ==
    /\ pc = "scored"
    /\ ReasonKinds = <<1, 2, 3, 4>>
    /\ ExpectedHundredths = 80
    /\ Lt(confidence.score, Lit(80))
    /\ confidence.level = "MEDIUM"

\* a graph of 4 to 8 nodes at a similarity in [0.3, 0.5]: the similarity and
\* complexity contributions are left out
C11_WitnessOmitted ==
    /\ pc = "scored"
    /\ ReasonKinds = <<1, 4>>
    /\ confidence.level = "MEDIUM"

(***************************************************************************)
(* Python strings.  A str is a TLA+ string; Len, SubSeq and \o act on it   *)
(* character by character.                                                 *)
(***************************************************************************)
CharAt(s, i) == SubSeq(s, i, i)

\* p in s
In(p, s) == \E i \in 1..(Len(s) - Len(p) + 1) : SubSeq(s, i, i + Len(p) - 1) = p

UpperCase == "ABCDEFGHIJKLMNOPQRSTUVWXYZ"

LowerCase == "abcdefghijklmnopqrstuvwxyz"

LowerChar(c) ==
    IF In(c, UpperCase)
    THEN CharAt(LowerCase, CHOOSE i \in 1..Len(UpperCase) : CharAt(UpperCase, i) = c)
    ELSE c

\* s.lower()
RECURSIVE lower(_)
lower(s) == IF s = "" THEN "" ELSE LowerChar(CharAt(s, 1)) \o lower(SubSeq(s, 2, Len(s)))

\* \w of the re module, on ASCII text
IsWordChar(c) == In(c, LowerCase) \/ In(c, UpperCase) \/ In(c, "0123456789_")

\* \b at the gap after the first i characters of s
WordBoundary(s, i) ==
    (i >= 1 /\ IsWordChar(CharAt(s, i))) # (i < Len(s) /\ IsWordChar(CharAt(s, i + 1)))

\* re.search(r'\b' + re.escape(pattern) + r'\b', s)
SearchWord(pattern, s) ==
    \E i \in 1..(Len(s) - Len(pattern) + 1) :
        /\ SubSeq(s, i, i + Len(pattern) - 1) = pattern
        /\ WordBoundary(s, i - 1)
        /\ WordBoundary(s, i + Len(pattern) - 1)

\* s.split(",")
RECURSIVE Split(_)
Split(s) ==
    IF ~In(",", s) THEN <<s>>
    ELSE LET i == CHOOSE j \in 1..Len(s) :
                      CharAt(s, j) = "," /\ \A k \in 1..(j - 1) : CharAt(s, k) # ","
         IN  <<SubSeq(s, 1, i - 1)>> \o Split(SubSeq(s, i + 1, Len(s)))

\* s.strip()
RECURSIVE Strip(_)
Strip(s) ==
    IF s = "" THEN ""
    ELSE IF CharAt(s, 1) = " " THEN Strip(SubSeq(s, 2, Len(s)))
    ELSE IF CharAt(s, Len(s)) = " " THEN Strip(SubSeq(s, 1, Len(s) - 1))
    ELSE s

\* [x.strip() for x in s.split(",") if x.strip()]
StrippedParts(s) ==
    LET parts == Split(s)
    IN  Flatten([i \in 1..Len(parts) |->
                    IF Strip(parts[i]) = "" THEN <<>> ELSE <<Strip(parts[i])>>],
                Len(parts))

\* a metadata value that need not be a string: Chroma stores primitives;
\* str is the value's str(), and a key that is not stored is PyAbsent
PyBool(b) == [type |-> "bool", str |-> IF b THEN "True" ELSE "False"]

PyAbsent == [type |-> "absent", str |-> ""]

\* str(meta.get(key, "")).lower()
StrLower(v) == lower(v.str)

(***************************************************************************)
(* src/src/metadata_utils.py: what a query asks for                        *)
(***************************************************************************)
SERVICE_PATTERNS ==
       "shopify" :> <<"shopify">>
    @@ "woocommerce" :> <<"woocommerce">>
    @@ "stripe" :> <<"stripe">>
    @@ "paypal" :> <<"paypal">>
    @@ "slack" :> <<"slack">>
    @@ "telegram" :> <<"telegram">>
    @@ "discord" :> <<"discord">>
    @@ "whatsapp" :> <<"whatsapp">>
    @@ "gmail" :> <<"gmail">>
    @@ "googlesheets" :> <<"googlesheets", "google sheets", "spreadsheet">>
    @@ "googledrive" :> <<"googledrive", "google drive">>
    @@ "googlecalendar" :> <<"googlecalendar", "google calendar">>
    @@ "airtable" :> <<"airtable">>
    @@ "notion" :> <<"notion">>
    @@ "nocodb" :> <<"nocodb">>
    @@ "hubspot" :> <<"hubspot">>
    @@ "salesforce" :> <<"salesforce">>
    @@ "zendesk" :> <<"zendesk">>
    @@ "mautic" :> <<"mautic">>
    @@ "mailchimp" :> <<"mailchimp">>
    @@ "sendgrid" :> <<"sendgrid">>
    @@ "twilio" :> <<"twilio">>
    @@ "openai" :> <<"openai", "chatgpt", "gpt">>
    @@ "mysql" :> <<"mysql">>
    @@ "postgres" :> <<"postgres", "postgresql">>
    @@ "mongodb" :> <<"mongodb", "mongo">>
    @@ "redis" :> <<"redis">>
    @@ "webhook" :> <<"webhook">>
    @@ "http" :> <<"httprequest", "http request">>
    @@ "typeform" :> <<"typeform">>
    @@ "jotform" :> <<"jotform">>
    @@ "webflow" :> <<"webflow">>
    @@ "wordpress" :> <<"wordpress">>
    @@ "twitter" :> <<"twitter">>
    @@ "facebook" :> <<"facebook">>
    @@ "linkedin" :> <<"linkedin">>
    @@ "dropbox" :> <<"dropbox">>
    @@ "onedrive" :> <<"onedrive">>
    @@ "box" :> <<"box.com", "boxnode">>
    @@ "trello" :> <<"trello">>
    @@ "asana" :> <<"asana">>
    @@ "jira" :> <<"jira">>
    @@ "github" :> <<"github">>
    @@ "gitlab" :> <<"gitlab">>
    @@ "bitbucket" :> <<"bitbucket">>
    @@ "aws" :> <<"aws", "amazon">>
    @@ "azure" :> <<"azure">>
    @@ "gcp" :> <<"gcp", "googlecloud">>
    @@ "cron" :> <<"cron", "schedule", "interval">>
    @@ "onfleet" :> <<"onfleet">>
    @@ "mqtt" :> <<"mqtt">>
    @@ "graphql" :> <<"graphql">>
    @@ "ftp" :> <<"ftp", "sftp">>

\* the keyword groups of infer_desired_categories_from_query, in its order
DESIRED_CATEGORY_WORDS == <<
    [category |-> "error-handling", words |-> {"error", "fail", "failure",
        "exception", "retry", "alert"}],
    [category |-> "lead-processing", words |-> {"lead", "signup", "prospect",
        "contact", "crm"}],
    [category |-> "file-management", words |-> {"file", "attachment", "pdf",
        "document", "upload", "download"}],
    [category |-> "notification", words |-> {"notify", "notification",
        "alert", "message"}],
    [category |-> "form-processing", words |-> {"form", "typeform",
        "submission", "response", "survey"}],
    [category |-> "ai-summary", words |-> {"summary", "summarize", "openai",
        "ai ", " ai", "llm", "gpt", "classify", "generate"}],
    [category |-> "ecommerce", words |-> {"order", "shopify", "woocommerce",
        "product", "cart", "checkout"}],
    [category |-> "data-sync", words |-> {"sync", "spreadsheet", "sheet",
        "row", "record", "database", "append"}],
    [category |-> "calendar", words |-> {"calendar", "event", "meeting",
        "appointment"}],
    [category |-> "scheduling", words |-> {"schedule", "cron", "hourly",
        "daily", "weekly", "interval"}],
    [category |-> "support", words |-> {"ticket", "support", "helpdesk",
        "zendesk"}]
>>

\* the services a query names, each by one of its patterns as a whole word
\* (the code returns them as a sorted list; only membership is used)
extract_services_from_query(q) ==
    LET query_lower == lower(q)
    IN  {service_id \in DOMAIN SERVICE_PATTERNS :
            \E k \in 1..Len(SERVICE_PATTERNS[service_id]) :
                SearchWord(SERVICE_PATTERNS[service_id][k], query_lower)}

\* the categories a query asks for, each by one of its keywords as a substring
infer_desired_categories_from_query(q) ==
    LET q_lower == lower(q)
    IN  {DESIRED_CATEGORY_WORDS[k].category : k \in
            {k \in 1..Len(DESIRED_CATEGORY_WORDS) :
                \E word \in DESIRED_CATEGORY_WORDS[k].words : In(word, q_lower)}}

(***************************************************************************)
(* src/src/rag.py: what the coverage pass reads from a query and from a    *)
(* candidate's metadata.  A metadata is the record of the keys the         *)
(* retrieval reads; a text key that is not stored is NONE.                 *)
(***************************************************************************)
\* need_slack, need_shopify, need_mysql, need_ai of select_relevant_results
SelectNeeds(q) ==
    LET query_lower == lower(q)
    IN  [slack |-> In("slack", query_lower),
         shopify |-> In("shopify", query_lower),
         mysql |-> In("mysql", query_lower),
         ai |-> \E word \in {" ai", "ai ", "llm", "summarize", "classify"} :
                    In(word, query_lower)]

\* need_ai of search_workflows
SearchNeedsAi(q) ==
    LET query_lower == lower(q)
    IN  \E word \in {" ai", "ai ", "llm", "summarize", "summary", "summarise",
                     "classify"} : In(word, query_lower)

IsSlack(meta) == In("slack", lower(Get(meta.destinations, "")))

IsShopify(meta) ==
    \/ In("shopify", lower(Get(meta.integrations, "")))
    \/ In("shopifytrigger", lower(Get(meta.triggers, "")))

IsMysql(meta) == In("mysql", lower(Get(meta.destinations, "")))

IsAi(meta) == StrLower(meta.has_ai) \in {"true", "1"}

\* the test of has_any_ai_workflow on one metadata
IsAiFlagged(meta) == StrLower(meta.has_ai) \in {"true", "1", "yes"}

\* services and categories of rerank_by_service_and_category (the code keeps
\* lists; only membership is used)
StoredServices(meta) == Range(StrippedParts(Get(meta.services, "")))

StoredCategories(meta) == Range(StrippedParts(Get(meta.categories, "")))

(***************************************************************************)
(* The stored candidates and the queries a search is run on                *)
(***************************************************************************)
MaxFetch == 4
MaxBackup == 2
MaxCount == 3
MaxResults == 3

\* the metadata src/src/ingest.py stores (prepare_chunks)
MetaV2(integrations, has_ai, triggers, destinations, services, categories) ==
    [integrations |-> integrations, has_ai |-> PyBool(has_ai), triggers |-> triggers,
     destinations |-> destinations, services |-> services, categories |-> categories]

\* the metadata src/src/rag_v3/pipeline.py stores (ingest_to_chromadb): no
\* has_ai, triggers, destinations or services key
MetaV3(integrations, categories) ==
    [integrations |-> integrations, has_ai |-> PyAbsent, triggers |-> NONE,
     destinations |-> NONE, services |-> NONE, categories |-> categories]

PlainWf == MetaV2("", FALSE, "", "", "", "")
SlackWf == MetaV2("Slack", FALSE, "webhook", "slack", "slack,webhook",
                  "form-processing,notification")
ShopifyWf == MetaV2("Shopify,Google Sheets", FALSE, "shopifytrigger", "googleSheets",
                    "googlesheets,shopify", "data-sync,ecommerce")
MysqlWf == MetaV2("MySQL", FALSE, "cron", "mySql", "cron,mysql", "scheduling")
AiWf == MetaV2("OpenAI", TRUE, "", "", "openai", "ai-summary")
TelegramWf == MetaV2("Telegram", FALSE, "telegramtrigger", "telegram", "telegram",
                     "notification")
\* Slack named by a node of another type: a service, not a destination
SlackByName == MetaV2("", FALSE, "", "", "http,slack", "notification")
SlackV3 == MetaV3("Slack", "notification")
ShopifyV3 == MetaV3("Shopify,Slack", "ecommerce,notification")

CommonMetas == {PlainWf, SlackWf, ShopifyWf, AiWf}
RareMetas == {MysqlWf, TelegramWf, SlackByName, SlackV3, ShopifyV3}

QueryPool ==
    {"Notify Slack when a new Shopify order arrives",
     "Summarize Shopify orders to Slack",
     "Sync MySQL rows",
     "hello world",
     "weekly summary",
     "send a telegram message"}

\* the analysis of each query and of each stored metadata, computed once
QueryFacts ==
    [q \in QueryPool \cup {""} |->
        [needs |-> SelectNeeds(q),
         need_ai |-> SearchNeedsAi(q),
         requested_services |-> extract_services_from_query(q),
         desired_categories |-> infer_desired_categories_from_query(q)]]

MetaFacts ==
    [m \in CommonMetas \cup RareMetas |->
        [slack |-> IsSlack(m), shopify |-> IsShopify(m), mysql |-> IsMysql(m),
         ai |-> IsAi(m), ai_flagged |-> IsAiFlagged(m),
         services |-> StoredServices(m), categories |-> StoredCategories(m)]]

(***************************************************************************)
(* src/src/metadata_utils.py: rerank_by_service_and_category.  A result is *)
(* the tuple (doc, meta, score); score is a Python float.                  *)
(***************************************************************************)
Result(doc, meta, score) == [doc |-> doc, meta |-> meta, score |-> score]

\* a variant that gives the category bonus only when no service bonus applies
Bonus_Exclusive(meta, requested_services, desired_categories) ==
    IF requested_services # {} /\ requested_services \cap MetaFacts[meta].services # {}
    THEN Lit(15)
    ELSE IF desired_categories # {}
            /\ desired_categories \cap MetaFacts[meta].categories # {}
    THEN Lit(8) ELSE Lit(0)

\* bonus = 0.0; bonus += service_bonus; bonus += category_bonus (the defaults
\* 0.15 and 0.08, which every caller uses)
Bonus(meta, requested_services, desired_categories) ==
    LET bonus0 == Lit(0)
        bonus1 == IF requested_services # {}
                     /\ requested_services \cap MetaFacts[meta].services # {}
                  THEN FAdd(bonus0, Lit(15)) ELSE bonus0
    IN  IF desired_categories # {}
           /\ desired_categories \cap MetaFacts[meta].categories # {}
        THEN FAdd(bonus1, Lit(8)) ELSE bonus1

\* a variant that inserts in front of an equal score
RECURSIVE InsertByScore_Unstable(_, _)
InsertByScore_Unstable(sorted, item) ==
    IF sorted = <<>> THEN <<item>>
    ELSE IF Le(item.score, Head(sorted).score) THEN <<item>> \o sorted
    ELSE <<Head(sorted)>> \o InsertByScore_Unstable(Tail(sorted), item)

\* list.sort(key=score): an item goes behind every item that is not greater
RECURSIVE InsertByScore(_, _)
InsertByScore(sorted, item) ==
    IF sorted = <<>> THEN <<item>>
    ELSE IF Lt(item.score, Head(sorted).score) THEN <<item>> \o sorted
    ELSE <<Head(sorted)>> \o InsertByScore(Tail(sorted), item)

RECURSIVE SortByScore(_, _)
SortByScore(items, n) ==
    IF n = 0 THEN <<>> ELSE InsertByScore(SortByScore(items, n - 1), items[n])

\* a variant without the fast path
NothingRequested_Never(requested_services, desired_categories) == FALSE

\* not requested_services and not desired_categories
NothingRequested(requested_services, desired_categories) ==
    requested_services = {} /\ desired_categories = {}

rerank_by_service_and_category(q, items) ==
    LET requested_services == QueryFacts[q].requested_services
        desired_categories == QueryFacts[q].desired_categories
        reranked == [i \in 1..Len(items) |->
            Result(items[i].doc, items[i].meta,
                   FSub(items[i].score,
                        Bonus(items[i].meta, requested_services, desired_categories)))]
    IN  IF NothingRequested(requested_services, desired_categories) THEN items
        ELSE SortByScore(reranked, Len(reranked))

(***************************************************************************)
(* src/src/rag.py: select_relevant_results.  Indices are positions 1..n in *)
(* the candidate lists (the code's i + 1); 0 stands for None.              *)
(***************************************************************************)
\* the first position whose metadata passes the test of a need, 0 when none
FirstIndex(metadatas, need) ==
    IF \E i \in 1..Len(metadatas) : MetaFacts[metadatas[i]][need]
    THEN CHOOSE i \in 1..Len(metadatas) :
            /\ MetaFacts[metadatas[i]][need]
            /\ \A j \in 1..(i - 1) : ~MetaFacts[metadatas[j]][need]
    ELSE 0

\* sorted(list(S)) of a set of integers
RECURSIVE Sorted(_)
Sorted(S) ==
    IF S = {} THEN <<>>
    ELSE LET m == CHOOSE x \in S : \A y \in S : x <= y
         IN  <<m>> \o Sorted(S \ {m})

\* s[:n]
Prefix(s, n) ==
    IF n >= 0 THEN SubSeq(s, 1, IF n < Len(s) THEN n ELSE Len(s))
    ELSE SubSeq(s, 1, Len(s) + n)

\* a variant that appends an index that is already there
RECURSIVE FillSlots_NoSkip(_, _, _, _)
FillSlots_NoSkip(indices, idx, n, max_final) ==
    IF idx > n \/ Len(indices) >= max_final THEN indices
    ELSE FillSlots_NoSkip(Append(indices, idx), idx + 1, n, max_final)

\* the loop over base_indices: append idx while there is room
RECURSIVE FillSlots(_, _, _, _)
FillSlots(indices, idx, n, max_final) ==
    IF idx > n \/ Len(indices) >= max_final THEN indices
    ELSE FillSlots(IF idx \in Range(indices) THEN indices ELSE Append(indices, idx),
                   idx + 1, n, max_final)

\* a variant that starts from the empty list
ForcedFirst_Empty(forced) == <<>>

\* final_indices = sorted(list(forced_indices))
ForcedFirst(forced) == Sorted(forced)

\* sorted(s) of a list of integers: equal entries are all kept
RECURSIVE SortedList(_)
SortedList(s) ==
    IF s = <<>> THEN <<>>
    ELSE LET m == CHOOSE x \in Range(s) : \A y \in Range(s) : x <= y
             at == CHOOSE i \in 1..Len(s) : s[i] = m /\ \A j \in 1..(i - 1) : s[j] # m
         IN  <<m>> \o SortedList(SubSeq(s, 1, at - 1) \o SubSeq(s, at + 1, Len(s)))

\* a variant that keeps the last max_final indices
FinalTrim_KeepLast(indices, max_final) ==
    LET s == SortedList(indices)
    IN  IF Len(s) <= max_final THEN s ELSE SubSeq(s, Len(s) - max_final + 1, Len(s))

\* sorted(final_indices)[:max_final]
FinalTrim(indices, max_final) == Prefix(SortedList(indices), max_final)

forced_indices(q, metadatas) ==
    LET need == QueryFacts[q].needs
        slack_idx == FirstIndex(metadatas, "slack")
        shopify_idx == FirstIndex(metadatas, "shopify")
        mysql_idx == FirstIndex(metadatas, "mysql")
        ai_idx == FirstIndex(metadatas, "ai")
    IN  (IF need.slack /\ slack_idx # 0 THEN {slack_idx} ELSE {})
        \cup (IF need.shopify /\ shopify_idx # 0 THEN {shopify_idx} ELSE {})
        \cup (IF need.mysql /\ mysql_idx # 0 THEN {mysql_idx} ELSE {})
        \cup (IF need.ai /\ ai_idx # 0 THEN {ai_idx} ELSE {})

final_indices(q, metadatas, max_final) ==
    FinalTrim(FillSlots(ForcedFirst(forced_indices(q, metadatas)), 1,
                        Len(metadatas), max_final),
              max_final)

\* (sel_ids, sel_docs, sel_metas)
select_relevant_results(q, metadatas, documents, ids, max_final) ==
    LET idx == final_indices(q, metadatas, max_final)
    IN  [ids |-> [i \in 1..Len(idx) |-> ids[idx[i]]],
         documents |-> [i \in 1..Len(idx) |-> documents[idx[i]]],
         metadatas |-> [i \in 1..Len(idx) |-> metadatas[idx[i]]]]

(***************************************************************************)
(* src/src/rag.py: search_workflows                                        *)
(***************************************************************************)
has_any_ai_workflow(metadatas) ==
    \E i \in 1..Len(metadatas) : MetaFacts[metadatas[i]].ai_flagged

\* a variant that appends every returned candidate
RECURSIVE Merge_NoDedupe(_, _, _)
Merge_NoDedupe(lists, ai, i) ==
    IF i > Len(ai) THEN lists
    ELSE Merge_NoDedupe([ids |-> Append(lists.ids, ai[i].id),
                         documents |-> Append(lists.documents, ai[i].doc),
                         metadatas |-> Append(lists.metadatas, ai[i].meta)],
                        ai, i + 1)

\* the merge loop: a returned candidate whose id is already there is skipped
\* (existing_ids is the set of lists.ids throughout)
RECURSIVE Merge(_, _, _)
Merge(lists, ai, i) ==
    IF i > Len(ai) THEN lists
    ELSE IF ai[i].id \in Range(lists.ids) THEN Merge(lists, ai, i + 1)
    ELSE Merge([ids |-> Append(lists.ids, ai[i].id),
                documents |-> Append(lists.documents, ai[i].doc),
                metadatas |-> Append(lists.metadatas, ai[i].meta)],
               ai, i + 1)

(***************************************************************************)
(* The stored candidates and the queries a search is run on                *)
(***************************************************************************)
\* the i-th nearest neighbor: distance in hundredths, growing with the rank
Candidate(i, meta) ==
    [id |-> "wf" \o ToString(i), doc |-> "Workflow " \o ToString(i), meta |-> meta,
     distance |-> 10 * i]

Ranked(metas) == [i \in 1..Len(metas) |-> Candidate(i, metas[i])]

Plains(n) == [i \in 1..n |-> PlainWf]

\* the answers of the service: any ranking of the common candidates, and
\* plain candidates ahead of one candidate, or of two alike
Collections ==
    {Ranked(metas) : metas \in SeqsUpTo(CommonMetas, MaxFetch)}
    \cup {Ranked(Plains(p) \o tail) :
            p \in 0..(MaxFetch - 1),
            tail \in UNION {{<<m>>, <<m, m>>} : m \in CommonMetas \cup RareMetas}}

\* what the AI-filtered query can return: stored candidates flagged has_ai,
\* among them one stored under the id of the best initial candidate
AiCandidates(initial) ==
    {[id |-> "ai1", doc |-> "AI workflow 1", meta |-> AiWf, distance |-> 60],
     [id |-> "ai2", doc |-> "AI workflow 2", meta |-> AiWf, distance |-> 70]}
    \cup (IF initial = <<>> THEN {}
          ELSE {[id |-> initial[1].id, doc |-> initial[1].doc, meta |-> AiWf,
                 distance |-> initial[1].distance]})

AiResponses(initial) ==
    {r \in SeqsUpTo(AiCandidates(initial), MaxBackup) :
        \A i, j \in 1..Len(r) : i # j => r[i].id # r[j].id}

\* the graphs the completion service answers with
LlmWorkflows ==
    {Workflow(Nodes(<<TriggerNode, ReplyNode>>), TestConnections),
     Workflow(Nodes(<<TriggerNode>>), ConnAbsent)}

NoWorkflow == Workflow(NodesAbsent, ConnAbsent)

(***************************************************************************)
(* One search (rag.py, search_workflows) followed by Step 4 of             *)
(* generate_workflow (api.py)                                              *)
(***************************************************************************)
fetch_k == 10

backup_n_results == 5

\* the lists of the first n of a service answer
Lists(answer, n) ==
    LET top == Prefix(answer, n)
    IN  [ids |-> [i \in 1..Len(top) |-> top[i].id],
         documents |-> [i \in 1..Len(top) |-> top[i].doc],
         metadatas |-> [i \in 1..Len(top) |-> top[i].meta]]

\* a float that is a whole number of hundredths, up to rounding
FromHundredths(h) == IF h < 0 THEN Neg(Lit(0 - h)) ELSE Lit(h)

\* the two-decimal value of a float score: x * 100 rounded to the nearest
\* whole number, computed on the leading bits of x (x * 2^22 = hi \div 64)
Hundredths(x) == (((x.hi \div 64) * 100) + 2^21) \div 2^22

NoStep4 ==
    /\ workflow = NoWorkflow
    /\ top_similarity = 0
    /\ validation = NoValidation
    /\ confidence = NoConfidence

SearchInit ==
    /\ \E q \in QueryPool : query = q
    /\ \E k \in 0..MaxCount : n_results = k
    /\ \E c \in Collections : collection = c
    /\ pool = NoPool
    /\ backup_queries = 0
    /\ final = NoPool
    /\ results_for_rerank = <<>>
    /\ results = <<>>
    /\ pc = "search"
    /\ NoStep4
    /\ NoExt

\* results = collection.query(..., n_results=fetch_k), then the test for an
\* AI-flagged candidate
Fetch ==
    /\ pc = "search"
    /\ pool' = Lists(collection, fetch_k)
    /\ pc' = IF QueryFacts[query].need_ai /\ ~has_any_ai_workflow(pool'.metadatas)
             THEN "backup" ELSE "select"
    /\ UNCHANGED <<query, n_results, collection, backup_queries, final,
                   results_for_rerank, results>>
    /\ UNCHANGED <<workflow, top_similarity, validation, confidence>>
    /\ UNCHANGED extVars

\* ai_results = collection.query(..., where={"has_ai": True}) and the merge
BackupQuery ==
    /\ pc = "backup"
    /\ \E answer \in AiResponses(collection) :
          pool' = Merge(pool, Prefix(answer, backup_n_results), 1)
    /\ backup_queries' = backup_queries + 1
    /\ pc' = "select"
    /\ UNCHANGED <<query, n_results, collection, final, results_for_rerank, results>>
    /\ UNCHANGED <<workflow, top_similarity, validation, confidence>>
    /\ UNCHANGED extVars

\* a variant that fills in the similarity 0.85 for every selected candidate
final_dists_Similar(n) == [i \in 1..n |-> Lit(85)]

\* final_dists = [0.0] * len(final_ids)
final_dists(n) == [i \in 1..n |-> Lit(0)]

\* select_relevant_results(...), final_dists, zip
Select ==
    /\ pc = "select"
    /\ final' = select_relevant_results(query, pool.metadatas, pool.documents,
                                        pool.ids, n_results)
    /\ results_for_rerank' =
          [i \in 1..Len(final'.ids) |->
              Result(final'.documents[i], final'.metadatas[i],
                     final_dists(Len(final'.ids))[i])]
    /\ pc' = "selected"
    /\ UNCHANGED <<query, n_results, collection, pool, backup_queries, results>>
    /\ UNCHANGED <<workflow, top_similarity, validation, confidence>>
    /\ UNCHANGED extVars

\* reranked_results = rerank_by_service_and_category(query, results_for_rerank)
Rerank ==
    /\ pc = "selected"
    /\ results' = rerank_by_service_and_category(query, results_for_rerank)
    /\ pc' = "returned"
    /\ UNCHANGED <<query, n_results, collection, pool, backup_queries, final,
                   results_for_rerank>>
    /\ UNCHANGED <<workflow, top_similarity, validation, confidence>>
    /\ UNCHANGED extVars

\* if not results: raise HTTPException(status_code=404, ...)
NoReferences ==
    /\ pc = "returned"
    /\ results = <<>>
    /\ pc' = "not_found"
    /\ UNCHANGED searchVars
    /\ UNCHANGED <<workflow, top_similarity, validation, confidence>>
    /\ UNCHANGED extVars

\* Step 4 on the decoded answer of the completion service:
\* validate_workflow(workflow), top_similarity = results[0][2],
\* calculate_confidence(workflow, top_similarity)
Generate ==
    /\ pc = "returned"
    /\ results # <<>>
    /\ \E w \in LlmWorkflows : workflow' = w
    /\ validation' = validate_workflow(workflow')
    /\ top_similarity' = Hundredths(results[1].score)
    /\ confidence' = calculate_confidence(workflow', top_similarity')
    /\ pc' = IF validation'.raised THEN "raised" ELSE "scored"
    /\ UNCHANGED searchVars
    /\ UNCHANGED extVars

SearchNext == Fetch \/ BackupQuery \/ Select \/ Rerank \/ NoReferences \/ Generate

SearchSpec == SearchInit /\ [][SearchNext]_vars

(***************************************************************************)
(* rerank_by_service_and_category called on scored results                 *)
(***************************************************************************)
RerankMetas == {PlainWf, SlackWf, ShopifyWf, SlackV3}

\* distances, in hundredths
ScorePool == {0, 15, 23}

ScoredResults ==
    {[i \in 1..Len(s) |-> Result("Workflow " \o ToString(i), s[i][1], Lit(s[i][2]))] :
        s \in SeqsUpTo(RerankMetas \X ScorePool, MaxResults)}

RerankInit ==
    /\ \E q \in QueryPool : query = q
    /\ \E r \in ScoredResults : results_for_rerank = r
    /\ n_results = 0
    /\ collection = <<>>
    /\ pool = NoPool
    /\ backup_queries = 0
    /\ final = NoPool
    /\ results = <<>>
    /\ pc = "selected"
    /\ NoStep4
    /\ NoExt

RerankNext == Rerank

RerankSpec == RerankInit /\ [][RerankNext]_vars

(***************************************************************************)
(* Properties of the retrieval                                             *)
(***************************************************************************)
\* a service is named in a stored metadata: one of its patterns occurs in the
\* services, integrations, destinations or triggers text
Mentions(meta, service_id) ==
    \E k \in 1..Len(SERVICE_PATTERNS[service_id]) :
        \E text \in {Get(meta.services, ""), Get(meta.integrations, ""),
                     Get(meta.destinations, ""), Get(meta.triggers, "")} :
            In(SERVICE_PATTERNS[service_id][k], lower(text))

MentionedServices ==
    [m \in CommonMetas \cup RareMetas |->
        {service_id \in DOMAIN SERVICE_PATTERNS : Mentions(m, service_id)}]

\* the number of needs the coverage pass reads from the query
ForcedNeeds(q) ==
    Cardinality({need \in {"slack", "shopify", "mysql", "ai"} : QueryFacts[q].needs[need]})

\* the search has returned its results
SearchReturned == pc = "returned" /\ collection # <<>>

\* C12: when the query names a service and a candidate of the fetched pool
\* has that service in its stored metadata, the returned selection has such
\* a candidate, for n_results >= 1 and no more forced needs than n_results
C12_CoverageGuarantee ==
    (SearchReturned /\ n_results >= 1 /\ ForcedNeeds(query) <= n_results) =>
        \A service_id \in QueryFacts[query].requested_services :
            (\E i \in 1..Len(pool.metadatas) :
                service_id \in MentionedServices[pool.metadatas[i]])
            => \E j \in 1..Len(results) :
                service_id \in MentionedServices[results[j].meta]

\* a candidate of the pool by its position, and the documents returned
IsShopifyCandidate(i) == "shopify" \in MentionedServices[pool.metadatas[i]]

ReturnedDocs == {results[j].doc : j \in 1..Len(results)}

\* the scenario: three results are asked for the Shopify order query, the
\* first three fetched candidates are not Shopify candidates, a later one is
ShopifyBelowTopThree ==
    /\ pc = "returned"
    /\ query = "Notify Slack when a new Shopify order arrives"
    /\ n_results = 3
    /\ Len(pool.ids) > 3
    /\ \A i \in 1..3 : ~IsShopifyCandidate(i)
    /\ \E i \in 4..Len(pool.ids) : IsShopifyCandidate(i)

ForcedPositions ==
    {i \in 1..Len(pool.ids) :
        \E need \in {"slack", "shopify", "mysql", "ai"} :
            /\ QueryFacts[query].needs[need]
            /\ MetaFacts[pool.metadatas[i]][need]
            /\ \A j \in 1..(i - 1) : ~MetaFacts[pool.metadatas[j]][need]}

\* the selection listed by position in the pool; 0 for an id the pool lacks
FinalPositions ==
    [j \in 1..Len(final.ids) |->
        IF \E i \in 1..Len(pool.ids) : pool.ids[i] = final.ids[j]
        THEN CHOOSE i \in 1..Len(pool.ids) :
                /\ pool.ids[i] = final.ids[j]
                /\ \A h \in 1..(i - 1) : pool.ids[h] # final.ids[j]
        ELSE 0]

\* the selection is made of candidates of the pool, in increasing position
SelectionInRankOrder ==
    /\ Len(final.documents) = Len(final.ids)
    /\ Len(final.metadatas) = Len(final.ids)
    /\ \A j \in 1..Len(final.ids) :
          /\ FinalPositions[j] # 0
          /\ final.documents[j] = pool.documents[FinalPositions[j]]
          /\ final.metadatas[j] = pool.metadatas[FinalPositions[j]]
    /\ \A a, b \in 1..Len(final.ids) : a < b => FinalPositions[a] < FinalPositions[b]

Min(a, b) == IF a <= b THEN a ELSE b

\* C14: when the forced candidates are at most k, the selection has every
\* forced candidate and the best-ranked other candidates, no candidate
\* twice, min(k, pool size) candidates, in original rank order
C14_ForcedWithinCount ==
    (pc = "selected" /\ Cardinality(ForcedPositions) <= n_results) =>
        /\ SelectionInRankOrder
        /\ ForcedPositions \subseteq Range(FinalPositions)
        /\ \A i \in Range(FinalPositions) \ ForcedPositions :
              \A h \in 1..(i - 1) : h \in Range(FinalPositions)
        /\ Cardinality(Range(FinalPositions)) = Len(final.ids)
        /\ Len(final.ids) = Min(n_results, Len(pool.ids))

\* two forced candidates at ranks 3 and 4 and k = 3: the selection is the
\* candidates 1, 3 and 4
C14_Witness ==
    /\ pc = "selected"
    /\ n_results = 3
    /\ ForcedPositions = {3, 4}
    /\ FinalPositions = <<1, 3, 4>>

\* fewer candidates than k: all of them are selected
C14_WitnessSmallPool ==
    /\ pc = "selected"
    /\ n_results = 3
    /\ Len(pool.ids) = 2
    /\ ForcedPositions = {2}
    /\ FinalPositions = <<1, 2>>

\* C15: when the forced candidates are more than k, the selection is the k
\* earliest forced candidates and has no other candidate
C15_ForcedBeyondCount ==
    (pc = "selected" /\ Cardinality(ForcedPositions) > n_results) =>
        /\ SelectionInRankOrder
        /\ Len(final.ids) = n_results
        /\ Range(FinalPositions) \subseteq ForcedPositions
        /\ \A i \in Range(FinalPositions) :
              \A h \in ForcedPositions : h < i => h \in Range(FinalPositions)

\* three forced candidates at ranks 1, 3 and 4 and k = 2: the selection is
\* the candidates 1 and 3
C15_Witness ==
    /\ pc = "selected"
    /\ n_results = 2
    /\ ForcedPositions = {1, 3, 4}
    /\ FinalPositions = <<1, 3>>

\* the initial fetch has a candidate stored with has_ai true
AiFlaggedInInitialFetch ==
    \E i \in 1..Len(collection) : collection[i].meta.has_ai = PyBool(TRUE)

\* the candidates of the pool after those of the initial fetch
MergedPositions == (Len(collection) + 1)..Len(pool.ids)

\* C16: the AI-filtered query is issued at most once, exactly when the query
\* asks for AI and the initial fetch has no AI-flagged candidate; what it
\* returns is appended only under an id the pool lacks, the three lists stay
\* aligned with distinct ids, and the selection is made after the merge
C16_SupplementaryAiQuery ==
    /\ backup_queries <= 1
    /\ pc \in {"search", "backup", "select"} => final = NoPool
    /\ pc \notin {"search", "backup"} =>
          /\ backup_queries = 1 <=>
                (QueryFacts[query].need_ai /\ ~AiFlaggedInInitialFetch)
          /\ Len(pool.documents) = Len(pool.ids)
          /\ Len(pool.metadatas) = Len(pool.ids)
          /\ \A a, b \in 1..Len(pool.ids) : a # b => pool.ids[a] # pool.ids[b]
          /\ Len(pool.ids) >= Len(collection)
          /\ \A i \in 1..Len(collection) :
                /\ pool.ids[i] = collection[i].id
                /\ pool.documents[i] = collection[i].doc
                /\ pool.metadatas[i] = collection[i].meta
          /\ \A i \in MergedPositions :
                /\ backup_queries = 1
                /\ \E c \in AiCandidates(collection) :
                      /\ pool.ids[i] = c.id
                      /\ pool.documents[i] = c.doc
                      /\ pool.metadatas[i] = c.meta
    /\ pc = "selected" => SelectionInRankOrder

\* the query asks for a summary, none of the four fetched candidates is
\* AI-flagged, one candidate is merged and the selection ends with it
C16_Witness ==
    /\ pc = "selected"
    /\ query = "Summarize Shopify orders to Slack"
    /\ n_results = 3
    /\ Len(collection) = 4
    /\ backup_queries = 1
    /\ Len(pool.ids) = 5
    /\ final.ids = <<"wf1", "wf2", "ai1">>

\* the query asks for AI and the initial fetch has an AI-flagged candidate:
\* no second query
C16_WitnessNoBackup ==
    /\ pc = "select"
    /\ QueryFacts[query].need_ai
    /\ AiFlaggedInInitialFetch
    /\ backup_queries = 0

(***************************************************************************)
(* Properties of the reranking                                             *)
(***************************************************************************)
\* the rerank has returned for a list that is not empty
Reranked == pc = "returned" /\ results_for_rerank # <<>>

\* the scores of a list of results
Scores(items) == [i \in 1..Len(items) |-> items[i].score]

\* C17: when no service and no desired category is extracted from the query,
\* the reranked list is the input list: same candidates, order and scores
C17_NothingExtractedIsNoOp ==
    (Reranked /\ QueryFacts[query].requested_services = {}
              /\ QueryFacts[query].desired_categories = {}) =>
        results = results_for_rerank

\* a list in descending score order, with candidates that store services and
\* categories, comes back as it was
C17_Witness ==
    /\ Reranked
    /\ query = "hello world"
    /\ Len(results_for_rerank) = 3
    /\ results_for_rerank[1].meta = SlackWf
    /\ Scores(results_for_rerank) = <<Lit(23), Lit(15), Lit(0)>>
    /\ results = results_for_rerank

\* the position of an input candidate in the output, by its document; 0 when
\* the output does not have it exactly once
OutputPosition(i) ==
    LET at == {j \in 1..Len(results) : results[j].doc = results_for_rerank[i].doc}
    IN  IF Cardinality(at) = 1 THEN CHOOSE j \in at : TRUE ELSE 0

\* the bonus a candidate is due, in hundredths: 15 for a stored service the
\* query names, plus 8 for a stored category the query desires
ExpectedBonus(meta) ==
    (IF MetaFacts[meta].services \cap QueryFacts[query].requested_services # {}
     THEN 15 ELSE 0)
    + (IF MetaFacts[meta].categories \cap QueryFacts[query].desired_categories # {}
       THEN 8 ELSE 0)

\* C18: each candidate's adjusted score is its score less the bonuses it is
\* due, the two bonuses adding up; it is never above the original score, and
\* the score of a candidate with no stored service and category is unchanged
C18_AdjustedScore ==
    Reranked =>
        \A i \in 1..Len(results_for_rerank) :
            LET item == results_for_rerank[i]
                j == OutputPosition(i)
            IN  /\ j # 0
                /\ Near(results[j].score,
                        FromHundredths(Hundredths(item.score) - ExpectedBonus(item.meta)))
                /\ Le(results[j].score, item.score)
                /\ (Get(item.meta.services, "") = "" /\ Get(item.meta.categories, "") = "")
                   => results[j].score = item.score

\* a Slack workflow at distance 0.23 gets both bonuses (0.00), a workflow
\* stored with a category only gets 0.08 (0.15) and a plain one none (0.15)
C18_Witness ==
    /\ Reranked
    /\ query = "Notify Slack when a new Shopify order arrives"
    /\ Len(results_for_rerank) = 3
    /\ results_for_rerank[1] = Result("Workflow 1", PlainWf, Lit(15))
    /\ results_for_rerank[2] = Result("Workflow 2", SlackV3, Lit(23))
    /\ results_for_rerank[3] = Result("Workflow 3", SlackWf, Lit(23))
    /\ results[1].doc = "Workflow 3" /\ Hundredths(results[1].score) = 0
    /\ results[2].doc = "Workflow 1" /\ results[2].score = Lit(15)
    /\ results[3].doc = "Workflow 2" /\ Hundredths(results[3].score) = 15

\* C19: when a service or a category is extracted from the query, the output
\* has the input's candidates, each once, in ascending order of adjusted
\* score, and candidates of equal adjusted score keep their input order
C19_StableAscendingPermutation ==
    (Reranked /\ (QueryFacts[query].requested_services # {}
                  \/ QueryFacts[query].desired_categories # {})) =>
        /\ Len(results) = Len(results_for_rerank)
        /\ \A i \in 1..Len(results_for_rerank) :
              /\ OutputPosition(i) # 0
              /\ results[OutputPosition(i)].meta = results_for_rerank[i].meta
        /\ \A a, b \in 1..Len(results) : a < b => Le(results[a].score, results[b].score)
        /\ \A i, h \in 1..Len(results_for_rerank) :
              (i < h /\ results[OutputPosition(i)].score = results[OutputPosition(h)].score)
              => OutputPosition(i) < OutputPosition(h)

\* the third candidate overtakes the first two, which end with equal adjusted
\* scores and keep their order
C19_Witness ==
    /\ Reranked
    /\ query = "Sync MySQL rows"
    /\ Len(results_for_rerank) = 3
    /\ results_for_rerank[3].meta = ShopifyWf
    /\ results[1].doc = "Workflow 3"
    /\ results[2].doc = "Workflow 1"
    /\ results[3].doc = "Workflow 2"
    /\ results[2].score = results[3].score
    /\ results_for_rerank[1].meta # results_for_rerank[2].meta

(***************************************************************************)
(* Properties of Step 4 after a search                                     *)
(***************************************************************************)
\* the distance, in hundredths, the service gave for the top result
TopDistance ==
    LET stored == Range(collection) \cup AiCandidates(collection)
    IN  (CHOOSE c \in stored : c.doc = results[1].doc).distance

\* C20: the top_similarity handed to calculate_confidence is the similarity
\* 1 - distance of the top retrieved candidate
C20_SimilarityFromDistance ==
    pc \in {"scored", "raised"} => top_similarity = 100 - TopDistance

\* what is handed over instead: the bonus-adjusted placeholder score, which
\* is 0.00 less the bonuses of the top result and never above zero
C20_AdjustedScorePassed ==
    pc \in {"scored", "raised"} =>
        /\ top_similarity = Hundredths(results[1].score)
        /\ top_similarity = 0 - ExpectedBonus(results[1].meta)
        /\ Level(confidence.score) # "HIGH" \/ confidence.raised

\* the nearest candidate is a Slack workflow at distance 0.10 and the query
\* names Slack: calculate_confidence is given -0.23
C20_WitnessNegative ==
    /\ pc = "scored"
    /\ query = "Notify Slack when a new Shopify order arrives"
    /\ results[1].doc = "Workflow 1"
    /\ TopDistance = 10
    /\ top_similarity = -23

(***************************************************************************)
(* Properties of the operation check by simple type                        *)
(***************************************************************************)
\* the suffix of a type after its last '.', the whole type when it has none
RECURSIVE SimpleTypeFrom(_, _)
SimpleTypeFrom(type, i) ==
    IF i = 0 THEN type
    ELSE IF CharAt(type, i) = "." THEN SubSeq(type, i + 1, Len(type))
    ELSE SimpleTypeFrom(type, i - 1)

\* the simple type of every type in use, computed once
SimpleType ==
    [type \in {Get(node.type, "") : node \in NodePool \cup {KnownPad, UnknownPad}} |->
        SimpleTypeFrom(type, Len(type))]

\* what validate_operations reported for a node: an invalid-operation error,
\* an unknown-type warning, or nothing
OperationOutcome(node) ==
    LET ops == validation.locals.op_errors
        named(k) == ops[k].parts[2] = Get(node.name, "Unknown")
    IN  IF \E k \in HardErrors(ops) : named(k) /\ ops[k].parts[6] = Get(node.type, "")
        THEN "invalid operation"
        ELSE IF \E k \in Warnings(ops) : named(k) /\ ops[k].parts[4] = Get(node.type, "")
        THEN "unknown type"
        ELSE "accepted"

\* C27: two nodes with the same simple type and the same operation get the
\* same outcome of the operation check, whatever their namespace
C27_OutcomeBySimpleType ==
    (Returned /\ HasNodes) =>
        \A i, j \in 1..Len(NodeList) :
            (/\ SimpleType[Get(NodeList[i].type, "")] = SimpleType[Get(NodeList[j].type, "")]
             /\ NodeList[i].operation = NodeList[j].operation)
            => OperationOutcome(NodeList[i]) = OperationOutcome(NodeList[j])

\* the lookup is by the whole type: the Telegram node of another namespace
\* with an unknown operation is warned about, the base one is refused
C27_WitnessWholeType ==
    /\ Returned
    /\ Len(NodeList) = 2
    /\ NodeList[1].type = Telegram /\ NodeList[2].type = CommunityTelegram
    /\ NodeList[1].operation = "doSomethingInvalid"
    /\ NodeList[2].operation = "doSomethingInvalid"
    /\ OperationOutcome(NodeList[1]) = "invalid operation"
    /\ OperationOutcome(NodeList[2]) = "unknown type"

(***************************************************************************)
(* Properties of the AI need                                               *)
(***************************************************************************)
\* the needs the query signals: the named services the coverage pass knows
\* and the AI need as search_workflows reads it
SignalledNeeds(q) ==
    Cardinality({need \in {"slack", "shopify", "mysql"} : QueryFacts[q].needs[need]})
    + (IF QueryFacts[q].need_ai \/ QueryFacts[q].needs.ai THEN 1 ELSE 0)

AiFlaggedInPool == \E i \in 1..Len(pool.ids) : pool.metadatas[i].has_ai = PyBool(TRUE)

AiFlaggedInResults == \E j \in 1..Len(results) : results[j].meta.has_ai = PyBool(TRUE)

\* C28: when the query signals an AI need, the merged pool has an AI-flagged
\* candidate, k >= 1 and the needs are at most k, the returned selection has
\* an AI-flagged candidate
C28_AiNeedCovered ==
    (/\ SearchReturned
     /\ QueryFacts[query].need_ai
     /\ AiFlaggedInPool
     /\ n_results >= 1
     /\ SignalledNeeds(query) <= n_results) => AiFlaggedInResults

\* the backup query ran and its candidate was merged behind three others,
\* yet the three results returned for "weekly summary" have no AI candidate
C28_WitnessSummaryNotForced ==
    /\ SearchReturned
    /\ query = "weekly summary"
    /\ n_results = 3
    /\ backup_queries = 1
    /\ Len(pool.ids) > Len(collection)
    /\ Len(results) = 3
    /\ ~AiFlaggedInResults

\* for a query with a word both lists have, the merged candidate is returned
C28_WitnessSummarize ==
    /\ SearchReturned
    /\ query = "Summarize Shopify orders to Slack"
    /\ n_results = 3
    /\ backup_queries = 1
    /\ Len(collection) = 4
    /\ AiFlaggedInResults

(***************************************************************************)
(* Properties of the score handed from the search to the scorer            *)
(***************************************************************************)
LowSimilarityReasons ==
    {i \in 1..Len(confidence.reasons) : confidence.reasons[i][1] = "-0.1 low similarity ("}

\* C29: every result of search_workflows has a score of at most 0; the value
\* the scorer gets is below 0.3, the low-similarity contribution is in every
\* explanation, and the confidence is at most 0.75 and never HIGH
C29_AlwaysLowSimilarity ==
    /\ pc \in {"returned", "not_found", "scored", "raised"} =>
          \A j \in 1..Len(results) : Le(results[j].score, Lit(0))
    /\ pc = "scored" =>
          /\ top_similarity < 30
          /\ Cardinality(LowSimilarityReasons) = 1
          /\ Le(confidence.score, Lit(75))
          /\ confidence.level # "HIGH"

\* the valid two-node graph after a search whose top result got both bonuses:
\* MEDIUM at 0.75 with the low-similarity contribution
C29_Witness ==
    /\ pc = "scored"
    /\ workflow = TestWorkflow
    /\ top_similarity = -23
    /\ validation.is_valid
    /\ confidence.reasons[2] = <<"-0.1 low similarity (", "-", "0", ".", "2", "3", ")">>
    /\ confidence.score = Lit(75)
    /\ confidence.level = "MEDIUM"

(***************************************************************************)
(* src/src/rag_v3/metadata_extractor.py and src/src/metadata_utils.py:     *)
(* the metadata inferred from a workflow file                              *)
(***************************************************************************)
\* the category enum of rag_v3
CATEGORIES ==
    {"ecommerce", "notification", "data-sync", "file-management", "error-handling",
     "ai", "communication", "database", "webhook", "unknown"}

\* node type key to category, in the order of the dict
NODE_TO_CATEGORY == <<
    <<"shopify", "ecommerce">>,
    <<"woocommerce", "ecommerce">>,
    <<"stripe", "ecommerce">>,
    <<"paypal", "ecommerce">>,
    <<"magento", "ecommerce">>,
    <<"telegram", "notification">>,
    <<"slack", "notification">>,
    <<"discord", "notification">>,
    <<"email", "notification">>,
    <<"gmail", "notification">>,
    <<"twilio", "notification">>,
    <<"mattermost", "notification">>,
    <<"pushover", "notification">>,
    <<"telegramtrigger", "communication">>,
    <<"slacktrigger", "communication">>,
    <<"whatsapp", "communication">>,
    <<"googlesheets", "data-sync">>,
    <<"airtable", "data-sync">>,
    <<"notion", "data-sync">>,
    <<"spreadsheetfile", "data-sync">>,
    <<"googledrive", "file-management">>,
    <<"dropbox", "file-management">>,
    <<"box", "file-management">>,
    <<"ftp", "file-management">>,
    <<"s3", "file-management">>,
    <<"awss3", "file-management">>,
    <<"postgres", "database">>,
    <<"mysql", "database">>,
    <<"mongodb", "database">>,
    <<"redis", "database">>,
    <<"elasticsearch", "database">>,
    <<"openai", "ai">>,
    <<"anthropic", "ai">>,
    <<"gemini", "ai">>,
    <<"huggingface", "ai">>,
    <<"webhook", "webhook">>,
    <<"respondtowebhook", "webhook">>,
    <<"stopanderror", "error-handling">>,
    <<"errorworkflow", "error-handling">>
>>

\* the detection rules of the categories, in the order of the dict
CATEGORY_RULES == <<
    [category |-> "ecommerce",
     services |-> {"shopify", "woocommerce", "stripe", "paypal"},
     keywords |-> {"order", "product", "cart", "checkout", "purchase", "payment"}],
    [category |-> "notification",
     services |-> {"slack", "telegram", "discord", "whatsapp", "email"},
     keywords |-> {"notify", "alert", "message", "send", "notification"}],
    [category |-> "data-sync",
     services |-> {"googlesheets", "airtable", "nocodb", "notion"},
     keywords |-> {"sync", "update", "append", "row", "record", "database"}],
    [category |-> "lead-processing",
     services |-> {"hubspot", "salesforce", "mautic", "mailchimp"},
     keywords |-> {"lead", "contact", "crm", "prospect", "customer", "signup"}],
    [category |-> "file-management",
     services |-> {"googledrive", "dropbox", "onedrive", "box", "ftp"},
     keywords |-> {"file", "attachment", "upload", "download", "document", "pdf"}],
    [category |-> "form-processing",
     services |-> {"typeform", "jotform", "webhook"},
     keywords |-> {"form", "submission", "response", "survey"}],
    [category |-> "ai-summary",
     services |-> {"openai"},
     keywords |-> {"ai", "summarize", "summary", "classify", "generate", "llm", "gpt", "chatgpt"}],
    [category |-> "error-handling",
     services |-> {},
     keywords |-> {"error", "fail", "failure", "exception", "retry", "catch", "errorhandler"}],
    [category |-> "scheduling",
     services |-> {"cron"},
     keywords |-> {"schedule", "cron", "interval", "timer", "periodic", "hourly", "daily", "weekly"}],
    [category |-> "calendar",
     services |-> {"googlecalendar"},
     keywords |-> {"calendar", "event", "meeting", "appointment", "schedule"}],
    [category |-> "social-media",
     services |-> {"twitter", "facebook", "linkedin"},
     keywords |-> {"tweet", "post", "social", "share"}],
    [category |-> "dev-tools",
     services |-> {"github", "gitlab", "bitbucket", "jira"},
     keywords |-> {"git", "commit", "issue", "pull request", "repository", "deploy"}],
    [category |-> "support",
     services |-> {"zendesk"},
     keywords |-> {"ticket", "support", "helpdesk", "customer service"}]
>>

\* a node of a workflow file, by the keys the inference reads: type, name,
\* the keys of credentials, and notes
FileNode(type, name, credentials, notes) ==
    [type |-> type, name |-> name, credentials |-> credentials, notes |-> notes]

\* a workflow file: its nodes, its name and its tags
File(nodes, name, tags) == [nodes |-> nodes, name |-> name, tags |-> tags]

\* simple_type: the part after the last '.' of a lower-cased type of the
\* n8n-nodes-base package, the whole lower-cased type otherwise
simple_type(node_type) ==
    IF In("n8n-nodes-base.", node_type)
    THEN SimpleTypeFrom(node_type, Len(node_type))
    ELSE node_type

FileNodes ==
    {FileNode("n8n-nodes-base.slack", "Slack", <<>>, ""),
     FileNode("n8n-nodes-base.set", "Set", <<>>, ""),
     FileNode("n8n-nodes-base.telegramTrigger", "Telegram Trigger", <<>>, ""),
     FileNode("n8n-nodes-base.httpRequest", "Slackbot", <<>>, ""),
     FileNode("n8n-nodes-base.httpRequest", "Call API", <<"slackOAuth2Api">>, ""),
     FileNode("@n8n/n8n-nodes-langchain.openAi", "Model", <<>>, "uses GPT")}

\* the first key of NODE_TO_CATEGORY, from position k on, that occurs in the
\* simple type; 0 when none does
RECURSIVE FirstKey(_, _)
FirstKey(simple, k) ==
    IF k > Len(NODE_TO_CATEGORY) THEN 0
    ELSE IF In(lower(NODE_TO_CATEGORY[k][1]), simple) THEN k
    ELSE FirstKey(simple, k + 1)

\* the inner loop of infer_categories on one node: the category of the first
\* key that occurs in its simple type, if any
NodeCategory(node) ==
    LET key == FirstKey(simple_type(lower(node.type)), 1)
    IN  IF key = 0 THEN {} ELSE {NODE_TO_CATEGORY[key][2]}

\* a variant that looks for a pattern as a whole word
Occurs_WholeWord(pattern, text) == SearchWord(pattern, text)

\* pattern in text
Occurs(pattern, text) == In(pattern, text)

\* a service has a pattern that occurs in the text
ServiceIn(service_id, text) ==
    \E k \in 1..Len(SERVICE_PATTERNS[service_id]) :
        Occurs(SERVICE_PATTERNS[service_id][k], text)

\* the body of the loop of infer_services_from_workflow on one node: the
\* services with a pattern in its type, its name or a key of its credentials
NodeServices(node) ==
    LET node_type == lower(node.type)
        node_name == lower(node.name)
        cred_lower == [c \in 1..Len(node.credentials) |-> lower(node.credentials[c])]
    IN  {service_id \in DOMAIN SERVICE_PATTERNS :
            \/ ServiceIn(service_id, node_type)
            \/ ServiceIn(service_id, node_name)
            \/ \E c \in 1..Len(cred_lower) : ServiceIn(service_id, cred_lower[c])}

\* the text one node adds to text_blob: type, name and non-empty notes
NodeText(node) ==
    " " \o lower(node.type) \o " " \o lower(node.name)
        \o (IF node.notes = "" THEN "" ELSE " " \o lower(node.notes))

\* what the loops find on each node in use, computed once
NodeFacts ==
    [node \in FileNodes |->
        [services |-> NodeServices(node), category |-> NodeCategory(node),
         text |-> NodeText(node)]]

\* the categories the loop over the nodes collects
NodeCategories(wf) == UNION {NodeFacts[wf.nodes[i]].category : i \in 1..Len(wf.nodes)}

\* a variant without the "unknown" default
infer_categories_NoDefault(wf) == NodeCategories(wf) \cap CATEGORIES

\* infer_categories(workflow) of rag_v3 (returned as a sorted list; the set
\* of its members here)
infer_categories(wf) ==
    LET categories == NodeCategories(wf)
        defaulted == IF categories = {} THEN {"unknown"} ELSE categories
        validated == defaulted \cap CATEGORIES
    IN  IF validated = {} THEN {"unknown"} ELSE validated

\* infer_services_from_workflow(workflow_json) (a sorted list; its members)
infer_services_from_workflow(wf) ==
    UNION {NodeFacts[wf.nodes[i]].services : i \in 1..Len(wf.nodes)}

\* the text of the nodes from position i on
RECURSIVE NodesText(_, _)
NodesText(nodes, i) ==
    IF i > Len(nodes) THEN "" ELSE NodeFacts[nodes[i]].text \o NodesText(nodes, i + 1)

RECURSIVE TagsText(_, _)
TagsText(tags, i) ==
    IF i > Len(tags) THEN "" ELSE " " \o lower(tags[i]) \o TagsText(tags, i + 1)

\* text_blob of infer_categories_from_workflow
text_blob(wf) == NodesText(wf.nodes, 1) \o " " \o lower(wf.name) \o TagsText(wf.tags, 1)

\* infer_categories_from_workflow(workflow_json, services) (a sorted list;
\* its members)
infer_categories_from_workflow(wf, services) ==
    LET blob == text_blob(wf)
    IN  {CATEGORY_RULES[k].category : k \in
            {j \in 1..Len(CATEGORY_RULES) :
                \/ CATEGORY_RULES[j].services \cap services # {}
                \/ \E keyword \in CATEGORY_RULES[j].keywords : In(keyword, blob)}}

MaxFileNodes == 2

Files ==
    {File(nodes, "", <<>>) : nodes \in SeqsUpTo(FileNodes, MaxFileNodes)}
        \cup {File(nodes, "Lead intake", <<"Weekly">>) :
                  nodes \in SeqsUpTo(FileNodes, MaxFileNodes)}

\* queries for the comparison of the two matching rules
FileQueries == {"post to slack", "ask the slackbot", "Send via Telegram."}

NoInference ==
    [services |-> {}, categories |-> {}, categories_v3 |-> {}, query_services |-> {}]

NoRetrieval ==
    /\ n_results = 0
    /\ collection = <<>>
    /\ pool = NoPool
    /\ backup_queries = 0
    /\ final = NoPool
    /\ results_for_rerank = <<>>
    /\ results = <<>>

ExtractInit ==
    /\ \E wf \in Files : workflow_json = wf
    /\ \E q \in FileQueries : query = q
    /\ metadata = NoInference
    /\ pc = "file"
    /\ NoRetrieval
    /\ NoStep4
    /\ NoPipeline
    /\ NoCli
    /\ NoApi

\* services = infer_services_from_workflow(wf)
InferServices ==
    /\ pc = "file"
    /\ metadata' = [metadata EXCEPT !.services = infer_services_from_workflow(workflow_json)]
    /\ pc' = "services"
    /\ UNCHANGED <<workflow_json, workflow, top_similarity, validation, confidence>>
    /\ UNCHANGED searchVars
    /\ UNCHANGED <<pipelineVars, cliVars, apiVars>>

\* categories = infer_categories_from_workflow(wf, services)
InferCategoriesFromWorkflow ==
    /\ pc = "services"
    /\ metadata' = [metadata EXCEPT !.categories =
                        infer_categories_from_workflow(workflow_json, metadata.services)]
    /\ pc' = "categories"
    /\ UNCHANGED <<workflow_json, workflow, top_similarity, validation, confidence>>
    /\ UNCHANGED searchVars
    /\ UNCHANGED <<pipelineVars, cliVars, apiVars>>

\* "categories": infer_categories(workflow) of extract_metadata
InferCategories ==
    /\ pc = "categories"
    /\ metadata' = [metadata EXCEPT !.categories_v3 = infer_categories(workflow_json)]
    /\ pc' = "labelled"
    /\ UNCHANGED <<workflow_json, workflow, top_similarity, validation, confidence>>
    /\ UNCHANGED searchVars
    /\ UNCHANGED <<pipelineVars, cliVars, apiVars>>

\* requested_services = extract_services_from_query(query)
ExtractServicesFromQuery ==
    /\ pc = "labelled"
    /\ metadata' = [metadata EXCEPT !.query_services = extract_services_from_query(query)]
    /\ pc' = "compared"
    /\ UNCHANGED <<workflow_json, workflow, top_similarity, validation, confidence>>
    /\ UNCHANGED searchVars
    /\ UNCHANGED <<pipelineVars, cliVars, apiVars>>

ExtractNext ==
    InferServices \/ InferCategoriesFromWorkflow \/ InferCategories
        \/ ExtractServicesFromQuery

ExtractSpec == ExtractInit /\ [][ExtractNext]_vars

(***************************************************************************)
(* Properties of the inferred metadata                                     *)
(***************************************************************************)
\* some key of the category table occurs in the simple type of some node
SomeTypeMatched ==
    \E i \in 1..Len(workflow_json.nodes) :
        LET simple == simple_type(lower(workflow_json.nodes[i].type))
        IN  \E k \in 1..Len(NODE_TO_CATEGORY) : In(NODE_TO_CATEGORY[k][1], simple)

\* some service or keyword of the detection rules matches the file
SomeRuleMatched ==
    LET blob == text_blob(workflow_json)
    IN  \E k \in 1..Len(CATEGORY_RULES) :
            \/ CATEGORY_RULES[k].services \cap metadata.services # {}
            \/ \E keyword \in CATEGORY_RULES[k].keywords : In(keyword, blob)

\* C23: the strict inference of rag_v3 returns a non-empty list within the
\* CATEGORIES enum that contains "unknown" exactly when no node type matched a
\* category key; the loose inference of metadata_utils returns the empty list
\* when no service and no keyword of its rules matches
C23_StrictNeverEmptyLooseMayBe ==
    /\ pc = "labelled" =>
          /\ metadata.categories_v3 # {}
          /\ metadata.categories_v3 \subseteq CATEGORIES
          /\ ("unknown" \in metadata.categories_v3) <=> ~SomeTypeMatched
    /\ pc = "categories" /\ ~SomeRuleMatched =>
          metadata.categories = {}

\* a file none of whose node types matches: the strict list is ["unknown"]
\* and the loose list is empty
C23_Witness ==
    /\ pc = "labelled"
    /\ Len(workflow_json.nodes) > 0
    /\ metadata.categories_v3 = {"unknown"}
    /\ metadata.categories = {}

\* a file whose node types match: no "unknown" in the strict list
C23_WitnessMatched ==
    /\ pc = "labelled"
    /\ metadata.categories_v3 = {"ai", "notification"}

\* the texts of a node the service inference reads
FileTexts ==
    UNION {{node.type, node.name} \cup Range(node.credentials) : node \in FileNodes}

\* the services with a pattern at some position of the lower-cased text,
\* whatever surrounds it, for every text in use
UnanchoredServices ==
    [text \in FileTexts |->
        LET t == lower(text)
        IN  {service_id \in DOMAIN SERVICE_PATTERNS :
                \E k \in 1..Len(SERVICE_PATTERNS[service_id]) :
                    LET p == SERVICE_PATTERNS[service_id][k]
                    IN  \E i \in 1..Len(t) : i + Len(p) - 1 <= Len(t)
                                             /\ SubSeq(t, i, i + Len(p) - 1) = p}]

\* the pattern stands in the text at position i with no word character next
\* to it on either side
DelimitedAt(p, t, i) ==
    /\ i >= 1
    /\ i + Len(p) - 1 <= Len(t)
    /\ SubSeq(t, i, i + Len(p) - 1) = p
    /\ (i = 1 \/ ~IsWordChar(CharAt(t, i - 1)))
    /\ (i + Len(p) - 1 = Len(t) \/ ~IsWordChar(CharAt(t, i + Len(p))))

\* C24: extract_services_from_query reports a service only if one of its
\* patterns stands in the lower-cased query delimited by word boundaries;
\* infer_services_from_workflow reports a service for any occurrence of a
\* pattern as a substring of a node's type, name or credential key
C24_QueryAnchoredGraphUnanchored ==
    /\ pc = "compared" =>
          LET t == lower(query)
          IN  \A service_id \in metadata.query_services :
                  \E k \in 1..Len(SERVICE_PATTERNS[service_id]), i \in 1..Len(t) :
                      DelimitedAt(SERVICE_PATTERNS[service_id][k], t, i)
    /\ pc = "services" =>
          \A n \in 1..Len(workflow_json.nodes) :
              LET node == workflow_json.nodes[n]
              IN  /\ UnanchoredServices[node.type] \subseteq metadata.services
                  /\ UnanchoredServices[node.name] \subseteq metadata.services
                  /\ \A c \in 1..Len(node.credentials) :
                        UnanchoredServices[node.credentials[c]] \subseteq metadata.services

\* the same word inside a longer one: "slackbot" in a query names no service,
\* in a node name it names slack
C24_Witness ==
    /\ pc = "compared"
    /\ query = "ask the slackbot"
    /\ metadata.query_services = {}
    /\ Len(workflow_json.nodes) = 1
    /\ workflow_json.nodes[1].name = "Slackbot"
    /\ "slack" \in metadata.services

\* a service found by a credential key alone
C24_WitnessCredential ==
    /\ pc = "services"
    /\ Len(workflow_json.nodes) = 1
    /\ workflow_json.nodes[1].credentials = <<"slackOAuth2Api">>
    /\ "slack" \in metadata.services

\* a query that names a service as a whole word
C24_WitnessQueryWord ==
    /\ pc = "compared"
    /\ query = "Send via Telegram."
    /\ metadata.query_services = {"telegram"}

(***************************************************************************)
(* src/src/rag_v3/pipeline.py: run_pipeline                                *)
(***************************************************************************)
MaxFiles == 11

\* PipelineStats()
PipelineStats ==
    [total_scanned |-> 0, valid_ingested |-> 0, skipped_exists |-> 0,
     skipped_invalid_json |-> 0, skipped_missing_nodes |-> 0, errors |-> <<>>]

\* a scanned file, by the key the statistics use (files of different folders
\* under one name)
FileInfo == [filename |-> "workflow.json"]

\* the error messages of load_and_sanitize (src/src/rag_v3/sanitizer.py)
LoadErrors ==
    {"Invalid JSON: Expecting value: line 1 column 1 (char 0)",
     "'nodes' is not a list", "'nodes' is empty", "'connections' is not a dict"}

\* is_valid, sanitized, error = load_and_sanitize(filepath)
LoadResults ==
    {[is_valid |-> TRUE, error |-> ""]}
        \cup {[is_valid |-> FALSE, error |-> e] : e \in LoadErrors}

\* the branch process_workflow takes on each error message, computed once
ErrorBranch ==
    [error \in LoadErrors |->
        IF In("Invalid JSON", error) THEN "skipped_invalid_json"
        ELSE IF In("nodes", lower(error)) THEN "skipped_missing_nodes"
        ELSE "errors"]

\* the entry process_workflow builds, by its fields that do not depend on the
\* content of the file
JsonlEntry(file_info) == [filename |-> file_info.filename, rag_version |-> "v3"]

\* process_workflow returned None
NoEntry == [filename |-> NONE, rag_version |-> NONE]

\* a variant that drops the errors that are neither invalid JSON nor about
\* nodes
process_workflow_Unrecorded(file_info, st, loaded) ==
    IF ~loaded.is_valid
    THEN [entry |-> NoEntry,
          stats |->
            IF ErrorBranch[loaded.error] = "skipped_invalid_json"
            THEN [st EXCEPT !.skipped_invalid_json = @ + 1]
            ELSE IF ErrorBranch[loaded.error] = "skipped_missing_nodes"
            THEN [st EXCEPT !.skipped_missing_nodes = @ + 1]
            ELSE st]
    ELSE [entry |-> JsonlEntry(file_info), stats |-> st]

\* process_workflow(file_info, stats): the entry returned and the statistics
\* after the call
process_workflow(file_info, st, loaded) ==
    IF ~loaded.is_valid
    THEN [entry |-> NoEntry,
          stats |->
            IF ErrorBranch[loaded.error] = "skipped_invalid_json"
            THEN [st EXCEPT !.skipped_invalid_json = @ + 1]
            ELSE IF ErrorBranch[loaded.error] = "skipped_missing_nodes"
            THEN [st EXCEPT !.skipped_missing_nodes = @ + 1]
            ELSE [st EXCEPT !.errors =
                     Append(@, file_info.filename \o ": " \o loaded.error)]]
    ELSE [entry |-> JsonlEntry(file_info), stats |-> st]

\* stats.errors and len(stats.errors) > len(entries) * 0.1 (the product is
\* never below a tenth of the count, and a whole number above a tenth of the
\* count is above the product, so the comparison is that of 10 * errors with
\* the count)
TooManyErrors(st, built) ==
    st.errors # <<>> /\ 10 * Len(st.errors) > Len(built)

NoRequest ==
    /\ query = ""
    /\ NoRetrieval
    /\ NoStep4

PipelineInit ==
    /\ stats = PipelineStats
    /\ new_files = <<>>
    /\ entries = <<>>
    /\ processed = 0
    /\ log = <<>>
    /\ success = FALSE
    /\ pc = "scan"
    /\ NoRequest
    /\ NoIngest
    /\ NoCli
    /\ NoApi

PipelineFrame ==
    /\ UNCHANGED <<workflow, top_similarity, validation, confidence>>
    /\ UNCHANGED searchVars
    /\ UNCHANGED <<ingestVars, cliVars, apiVars>>

\* new_files, total, existing = scan_and_index(project_root)
Scan ==
    /\ pc = "scan"
    /\ \E n \in 0..MaxFiles, existing \in 0..1 :
          /\ new_files' = [k \in 1..n |-> FileInfo]
          /\ stats' = [stats EXCEPT !.total_scanned = n, !.skipped_exists = existing]
    /\ IF new_files' = <<>>
       THEN /\ log' = Append(log, "[OK] RAG V3 READY (no new data)")
            /\ success' = TRUE
            /\ pc' = "returned"
       ELSE /\ pc' = "process"
            /\ UNCHANGED <<log, success>>
    /\ UNCHANGED <<entries, processed>>
    /\ PipelineFrame

\* scan_and_index raised
ScanFailed ==
    /\ pc = "scan"
    /\ log' = Append(log, "[FAIL] Scan failed")
    /\ success' = FALSE
    /\ pc' = "returned"
    /\ UNCHANGED <<stats, new_files, entries, processed>>
    /\ PipelineFrame

\* one turn of the loop: entry = process_workflow(file_info, stats)
ProcessWorkflow ==
    /\ pc = "process"
    /\ \E loaded \in LoadResults :
          LET result == process_workflow(new_files[processed + 1], stats, loaded)
          IN  IF result.entry # NoEntry
              THEN /\ entries' = Append(entries, result.entry)
                   /\ stats' = [result.stats EXCEPT !.valid_ingested = @ + 1]
              ELSE /\ entries' = entries
                   /\ stats' = result.stats
    /\ processed' = processed + 1
    /\ pc' = IF processed' = Len(new_files) THEN "write" ELSE "process"
    /\ UNCHANGED <<new_files, log, success>>
    /\ PipelineFrame

\* written = write_v3_jsonl(entries, output_path)
WriteJsonl ==
    /\ pc = "write"
    /\ pc' = "ingest"
    /\ UNCHANGED pipelineVars
    /\ PipelineFrame

\* os.makedirs or write_v3_jsonl raised
WriteFailed ==
    /\ pc = "write"
    /\ log' = Append(log, "[FAIL] Write failed")
    /\ success' = FALSE
    /\ pc' = "returned"
    /\ UNCHANGED <<stats, new_files, entries, processed>>
    /\ PipelineFrame

\* ingested = ingest_to_chromadb(entries, "n8n_workflows_v3")
Ingest ==
    /\ pc = "ingest"
    /\ pc' = "report"
    /\ UNCHANGED pipelineVars
    /\ PipelineFrame

\* ingest_to_chromadb raised
IngestFailed ==
    /\ pc = "ingest"
    /\ log' = Append(log, "[WARN] ChromaDB ingestion failed")
    /\ stats' = [stats EXCEPT !.errors = Append(@, "ChromaDB: disk full")]
    /\ pc' = "report"
    /\ UNCHANGED <<new_files, entries, processed, success>>
    /\ PipelineFrame

\* the check for failures and the return
Report ==
    /\ pc = "report"
    /\ IF TooManyErrors(stats, entries)
       THEN /\ log' = Append(log, "[FAIL] Too many errors encountered")
            /\ success' = FALSE
       ELSE /\ log' = Append(log, "[OK] RAG V3 READY")
            /\ success' = TRUE
    /\ pc' = "returned"
    /\ UNCHANGED <<stats, new_files, entries, processed>>
    /\ PipelineFrame

PipelineNext ==
    Scan \/ ScanFailed \/ ProcessWorkflow \/ WriteJsonl \/ WriteFailed \/ Ingest
        \/ IngestFailed \/ Report

PipelineSpec == PipelineInit /\ [][PipelineNext]_vars

(***************************************************************************)
(* Properties of the ingestion run                                         *)
(***************************************************************************)
\* an error occurred in some step of the run: a step raised, or an error was
\* recorded in stats.errors
AnyErrorOccurred ==
    \/ stats.errors # <<>>
    \/ \E k \in 1..Len(log) :
          log[k] \in {"[FAIL] Scan failed", "[FAIL] Write failed",
                      "[WARN] ChromaDB ingestion failed"}

\* C25: run_pipeline returns False if any error occurred in any step (scan
\* failure, a per-file error recorded in stats.errors, write failure, ChromaDB
\* ingestion failure), and True otherwise
C25_FalseOnAnyError ==
    pc = "returned" => (success <=> ~AnyErrorOccurred)

\* what the code does: it returns False on a scan or write failure and when
\* the recorded errors exceed a tenth of the entries, True otherwise
C25_FalseAboveTenth ==
    pc = "returned" =>
        (success <=>
            /\ \A k \in 1..Len(log) :
                  log[k] \notin {"[FAIL] Scan failed", "[FAIL] Write failed"}
            /\ 10 * Len(stats.errors) <= Len(entries))

\* ten valid files and one recorded per-file error: the run returns True
C25_WitnessTrueWithError ==
    /\ pc = "returned"
    /\ success
    /\ stats.valid_ingested = 10
    /\ stats.errors = <<"workflow.json: 'connections' is not a dict">>

\* count of the files the statistics account for
Counted(st) ==
    st.valid_ingested + st.skipped_invalid_json + st.skipped_missing_nodes
        + Len(st.errors)

\* when the loop is running or has finished, the four counts add up to the
\* number of processed files and valid_ingested is the number of entries;
\* when it has finished, they add up to total_scanned
CountsAddUp ==
    /\ pc \in {"process", "write", "ingest"} =>
          /\ Counted(stats) = processed
          /\ stats.valid_ingested = Len(entries)
    /\ pc \in {"write", "ingest"} =>
          /\ processed = Len(new_files)
          /\ stats.total_scanned = Counted(stats)

\* a turn of the loop adds one to one of the four counts and leaves the
\* other three as they were
OneCountPerFile ==
    pc = "process" =>
        /\ Counted(stats') = Counted(stats) + 1
        /\ stats'.valid_ingested >= stats.valid_ingested
        /\ stats'.skipped_invalid_json >= stats.skipped_invalid_json
        /\ stats'.skipped_missing_nodes >= stats.skipped_missing_nodes
        /\ Len(stats'.errors) >= Len(stats.errors)

\* C30: before the ChromaDB step every processed file is counted in exactly
\* one of valid_ingested, skipped_invalid_json, skipped_missing_nodes and the
\* errors list; when processing has finished the four add up to
\* total_scanned, and valid_ingested is the number of entries handed to the
\* JSONL writer
C30_EveryFileCountedOnce == []CountsAddUp /\ [][OneCountPerFile]_vars

\* a finished loop with files in all four counts
C30_Witness ==
    /\ pc = "write"
    /\ stats.valid_ingested = 1
    /\ stats.skipped_invalid_json = 1
    /\ stats.skipped_missing_nodes = 2
    /\ Len(stats.errors) = 1
    /\ stats.total_scanned = 5

(***************************************************************************)
(* src/src/rag.py: get_retriever, as started by src/src/ai_build_and_test.py *)
(* and by src/src/api.py                                                   *)
(***************************************************************************)
COLLECTION_NAME == "n8n_workflows"

COLLECTION_NAME_V3 == "n8n_workflows_v3"

\* the values of RAG_VERSION in the environment the program is started in
\* (NONE: not set), and of the --rag-version option (NONE: not given)
EnvironValues == {NONE, "v2", "v3"}

RagVersionOptions == {NONE, "v2", "v3"}

\* the collections ./chroma_db may hold
Databases == SUBSET {COLLECTION_NAME, COLLECTION_NAME_V3}

\* collection_name = COLLECTION_NAME_V3 if version == "v3" else COLLECTION_NAME
collection_name(version) ==
    IF version = "v3" THEN COLLECTION_NAME_V3 ELSE COLLECTION_NAME

\* get_retriever(): the name of the collection returned, NONE when the second
\* get_collection raises as well
get_retriever(version, db) ==
    LET v == IF version = NONE THEN RAG_VERSION ELSE version
    IN  IF collection_name(v) \in db THEN collection_name(v)
        ELSE IF COLLECTION_NAME \in db THEN COLLECTION_NAME
        ELSE NONE

NoRun ==
    /\ NoRequest
    /\ NoIngest
    /\ NoPipeline

\* python src/ai_build_and_test.py QUERY [--rag-version V] or the start of the
\* API server
CliInit ==
    /\ \E e \in EnvironValues : environ = e
    /\ \E db \in Databases : chroma_db = db
    /\ \/ /\ pc = "ai_build_and_test"
          /\ \E option \in RagVersionOptions : args = [rag_version |-> option]
       \/ /\ pc = "api"
          /\ args = [rag_version |-> NONE]
    /\ RAG_VERSION = NONE
    /\ opened = NONE
    /\ NoRun
    /\ NoApi

CliFrame ==
    /\ UNCHANGED <<workflow, top_similarity, validation, confidence>>
    /\ UNCHANGED searchVars
    /\ UNCHANGED <<ingestVars, pipelineVars, apiVars>>

\* api.py: os.environ["RAG_VERSION"] = "v3", before the import of rag
ApiSetEnviron ==
    /\ pc = "api"
    /\ environ' = "v3"
    /\ pc' = "api_import"
    /\ UNCHANGED <<RAG_VERSION, args, chroma_db, opened>>
    /\ CliFrame

\* from rag import search_workflows: the module body runs
\* RAG_VERSION = os.environ.get("RAG_VERSION", "v3")
ImportRag ==
    /\ pc \in {"ai_build_and_test", "api_import"}
    /\ RAG_VERSION' = Get(environ, "v3")
    /\ pc' = IF pc = "api_import" THEN "retrieve" ELSE "main"
    /\ UNCHANGED <<environ, args, chroma_db, opened>>
    /\ CliFrame

\* main(): args = parser.parse_args() (default "v3") and
\* os.environ["RAG_VERSION"] = args.rag_version
MainSetEnviron ==
    /\ pc = "main"
    /\ args' = [rag_version |-> Get(args.rag_version, "v3")]
    /\ environ' = args'.rag_version
    /\ pc' = "retrieve"
    /\ UNCHANGED <<RAG_VERSION, chroma_db, opened>>
    /\ CliFrame

\* search_workflows: collection = get_retriever()
GetRetriever ==
    /\ pc = "retrieve"
    /\ opened' = get_retriever(NONE, chroma_db)
    /\ pc' = IF opened' = NONE THEN "retrieval_failed" ELSE "opened"
    /\ UNCHANGED <<environ, RAG_VERSION, args, chroma_db>>
    /\ CliFrame

CliNext == ApiSetEnviron \/ ImportRag \/ MainSetEnviron \/ GetRetriever

CliSpec == CliInit /\ [][CliNext]_vars

(***************************************************************************)
(* Properties of the selection of the collection                           *)
(***************************************************************************)
\* C26: the --rag-version option selects the collection the retrieval of the
\* run opens: the v2 collection with v2, the v3 collection with v3, and the
\* v2 collection in its place only if the v3 collection does not exist
C26_OptionSelectsCollection ==
    pc = "opened" /\ args.rag_version # NONE =>
        opened = IF args.rag_version = "v3" /\ COLLECTION_NAME_V3 \in chroma_db
                 THEN COLLECTION_NAME_V3
                 ELSE COLLECTION_NAME

\* what the code does: the value of RAG_VERSION in the environment at the
\* start of the program selects the collection, v3 when it is not set
C26_StartEnvironmentSelects ==
    pc = "opened" =>
        opened = IF RAG_VERSION = "v3" /\ COLLECTION_NAME_V3 \in chroma_db
                 THEN COLLECTION_NAME_V3
                 ELSE COLLECTION_NAME

\* --rag-version v2 with both collections present opens the v3 collection
C26_WitnessOptionIgnored ==
    /\ pc = "opened"
    /\ args.rag_version = "v2"
    /\ environ = "v2"
    /\ chroma_db = {COLLECTION_NAME, COLLECTION_NAME_V3}
    /\ opened = COLLECTION_NAME_V3

(***************************************************************************)
(* src/src/api.py: generate_workflow, get_workflow and list_workflows, and *)
(* src/src/ai_builder.py: the parsing of the completion                    *)
(***************************************************************************)
MaxRequests == 2

\* str(uuid.uuid4())[:8]
IdPool == {"1a2b3c4d", "5e6f7a8b"}

\* the JSON text of the two-node workflow, and of the workflow with one node
\* and no "connections" key
TwoNodeJson ==
    "{\"nodes\": [{\"id\": \"1\", \"name\": \"Telegram Trigger\", "
    \o "\"type\": \"n8n-nodes-base.telegramTrigger\"}, "
    \o "{\"id\": \"2\", \"name\": \"Reply\", \"type\": \"n8n-nodes-base.telegram\", "
    \o "\"parameters\": {\"operation\": \"sendMessage\"}}], "
    \o "\"connections\": {\"Telegram Trigger\": {\"main\": [[{\"node\": \"Reply\"}]]}}}"

OneNodeJson ==
    "{\"nodes\": [{\"id\": \"1\", \"name\": \"Telegram Trigger\", "
    \o "\"type\": \"n8n-nodes-base.telegramTrigger\"}]}"

\* the same with a comma before the last closing brace
TrailingCommaJson == SubSeq(OneNodeJson, 1, Len(OneNodeJson) - 1) \o ",\n}"

\* the JSON text of a one-node workflow whose "connections" is a list
ListConnectionsJson ==
    SubSeq(OneNodeJson, 1, Len(OneNodeJson) - 1) \o ", \"connections\": [\"Reply\"]}"

TruncatedJson == "{\"nodes\": [{\"id\": \"1\","

\* json.loads on the texts in use: a JSONDecodeError, or the decoded value
\* (none for null)
JSONDecodeError == [error |-> TRUE, value |-> <<>>]

Decoded(value) == [error |-> FALSE, value |-> value]

json_loads ==
    TwoNodeJson :> Decoded(<<Workflow(Nodes(<<TriggerNode, ReplyNode>>), TestConnections)>>)
    @@ OneNodeJson :> Decoded(<<Workflow(Nodes(<<TriggerNode>>), ConnAbsent)>>)
    @@ ListConnectionsJson :> Decoded(<<Workflow(Nodes(<<TriggerNode>>), ConnList(1))>>)
    @@ "null" :> Decoded(<<>>)
    @@ TrailingCommaJson :> JSONDecodeError
    @@ TruncatedJson :> JSONDecodeError

\* the three grave accents of a code fence (the grave accent is not a
\* character of a TLA+ string: an apostrophe stands for it)
FENCE == "'''"

\* the answer of the completion service around a JSON text
Fenced(json_str) ==
    "## Implementation Plan\nUse a trigger.\n\n## Complete Workflow JSON\n"
    \o FENCE \o "json\n" \o json_str \o "\n" \o FENCE \o "\n"

\* what call_llm_with_prompt returns: None when there is no client or the call
\* failed, otherwise the content of the completion
LlmResponses ==
    {NONE, "", "I cannot help with that.", Fenced(TwoNodeJson), Fenced(OneNodeJson),
     Fenced(TrailingCommaJson), Fenced(TruncatedJson), Fenced(ListConnectionsJson),
     Fenced("null")}

\* the first position from i on at which p stands in s, 0 when there is none
Find(p, s, i) ==
    LET hits == {j \in i..(Len(s) - Len(p) + 1) : SubSeq(s, j, j + Len(p) - 1) = p}
    IN  IF hits = {} THEN 0 ELSE CHOOSE j \in hits : \A k \in hits : j <= k

\* string.whitespace
IsSpace(c) == c \in {" ", "\n", "\t", "\r"}

\* s.strip()
StripSpace(s) ==
    LET inked == {i \in 1..Len(s) : ~IsSpace(CharAt(s, i))}
    IN  IF inked = {} THEN ""
        ELSE SubSeq(s, CHOOSE i \in inked : \A k \in inked : i <= k,
                       CHOOSE i \in inked : \A k \in inked : i >= k)

\* re.search(r'```json\s*\n(.*?)\n```', response_text, re.DOTALL), group 1
\* stripped, for a text whose fence line ends right after ```json; NONE when
\* there is no match
JsonBlock(response_text) ==
    LET open == Find(FENCE \o "json\n", response_text, 1)
        close == IF open = 0 THEN 0
                 ELSE Find("\n" \o FENCE, response_text, open + 8)
    IN  IF open = 0 \/ close = 0 THEN NONE
        ELSE StripSpace(SubSeq(response_text, open + 8, close - 1))

\* the number of whitespace characters of s from position i on
RECURSIVE SpaceRun(_, _)
SpaceRun(s, i) ==
    IF i <= Len(s) /\ IsSpace(CharAt(s, i)) THEN 1 + SpaceRun(s, i + 1) ELSE 0

\* the characters of s at the positions lo..hi that are not in dropped
RECURSIVE Kept(_, _, _, _)
Kept(s, dropped, lo, hi) ==
    IF lo > hi THEN ""
    ELSE IF lo = hi THEN (IF lo \in dropped THEN "" ELSE CharAt(s, lo))
    ELSE Kept(s, dropped, lo, (lo + hi) \div 2)
             \o Kept(s, dropped, (lo + hi) \div 2 + 1, hi)

\* re.sub(r',\s*' + closer, closer, s) for a one-character closer: every comma
\* that only whitespace separates from a closer goes, with that whitespace
DropCommaBefore(closer, s) ==
    LET commas == {i \in 1..Len(s) :
                      /\ CharAt(s, i) = ","
                      /\ i + SpaceRun(s, i + 1) + 1 <= Len(s)
                      /\ CharAt(s, i + SpaceRun(s, i + 1) + 1) = closer}
        dropped == UNION {i..(i + SpaceRun(s, i + 1)) : i \in commas}
    IN  Kept(s, dropped, 1, Len(s))

\* parse_llm_response_for_workflow(response): the workflow_dict returned
\* (none for None)
parse_llm_response_for_workflow(response_text) ==
    LET json_str == JsonBlock(response_text)
        fixed_json == DropCommaBefore("]", DropCommaBefore("}", json_str))
    IN  IF json_str = NONE THEN <<>>
        ELSE IF ~json_loads[json_str].error THEN json_loads[json_str].value
        ELSE IF fixed_json \in DOMAIN json_loads /\ ~json_loads[fixed_json].error
        THEN json_loads[fixed_json].value
        ELSE <<>>

\* the node at the first position that lacks a name or a type, 0 when none
RECURSIVE FirstIncomplete(_, _)
FirstIncomplete(nodes, i) ==
    IF i > Len(nodes) THEN 0
    ELSE IF nodes[i].name = NONE \/ nodes[i].type = NONE THEN i
    ELSE FirstIncomplete(nodes, i + 1)

\* validate_workflow_json(workflow) of ai_builder: is_valid and the message,
\* as the pieces its f-string joins
validate_workflow_json(w) ==
    LET bad == FirstIncomplete(NodesOf(w), 1)
        no(message) == [is_valid |-> FALSE, error_msg |-> message]
    IN  IF ~w.nodes.present THEN no(<<"Missing required key: 'nodes'">>)
        ELSE IF w.connections.kind = "absent"
        THEN no(<<"Missing required key: 'connections'">>)
        ELSE IF Len(w.nodes.list) = 0
        THEN no(<<"'nodes' array is empty - workflow has no nodes">>)
        ELSE IF w.connections.kind = "null"
        THEN no(<<"'connections' must be a dict, got ", "NoneType">>)
        ELSE IF w.connections.kind = "list"
        THEN no(<<"'connections' must be a dict, got ", "list">>)
        ELSE IF bad # 0 /\ w.nodes.list[bad].name = NONE
        THEN no(<<"Node at index ", ToString(bad - 1), " missing 'name'">>)
        ELSE IF bad # 0
        THEN no(<<"Node at index ", ToString(bad - 1), " missing 'type'">>)
        ELSE [is_valid |-> TRUE, error_msg |-> <<>>]

\* parse_llm_response_for_workflow on each answer of the completion service
ParsedResponses ==
    [response_text \in LlmResponses \ {NONE} |->
        parse_llm_response_for_workflow(response_text)]

\* the requests a client sends, each with its reply once it has one: POST /generate (upload_to_n8n left false),
\* GET /workflow/{workflow_id} and GET /workflows?limit=
RequestPool ==
    {[kind |-> "generate", query |-> "reply on telegram", top_k |-> 3,
      workflow_id |-> NONE, limit |-> 0, reply |-> <<>>]}
    \cup {[kind |-> "get", query |-> NONE, top_k |-> 0,
           workflow_id |-> id, limit |-> 0, reply |-> <<>>] : id \in IdPool}
    \cup {[kind |-> "list", query |-> NONE, top_k |-> 0,
           workflow_id |-> NONE, limit |-> n, reply |-> <<>>] : n \in {1, 10}}

\* what search_workflows returns to the handler
SearchResults == {<<>>, <<Result("Workflow 1", PlainWf, Lit(15))>>}

\* raise HTTPException(status_code=..., detail=...)
HTTPException(status_code, detail) ==
    [status_code |-> status_code, detail |-> detail, body |-> <<>>]

\* a returned value, sent with status 200 OK
Ok(body) == [status_code |-> 200, detail |-> NONE, body |-> <<body>>]

NoReferencesFound == HTTPException(404, "No reference workflows found")

EmptyResponse == HTTPException(500, "LLM returned empty response")

\* a variant that reports an unparseable answer as an empty one
ParseFailed_AsEmpty == EmptyResponse

ParseFailed == HTTPException(500, "Failed to parse workflow JSON from LLM response")

\* except Exception as e: raise HTTPException(status_code=500, detail=str(e)),
\* for the AttributeError of connections.items()
Unexpected == HTTPException(500, "'list' object has no attribute 'items'")

\* the fields of WorkflowResponse that come from Step 4 (implementation_plan,
\* references, n8n_url and created_at are left out: no step reads them back)
WorkflowResponse(id, q, w, basic, advanced, conf) ==
    [id |-> id,
     query |-> q,
     status |-> IF ~basic.is_valid THEN "error"
                ELSE IF ~advanced.is_valid THEN "warning"
                ELSE "success",
     confidence |-> Hundredths(conf.score),
     confidence_label |-> Level(conf.score),
     workflow |-> w,
     validation |-> [basic_valid |-> basic.is_valid,
                     basic_error |-> basic.error_msg,
                     advanced_valid |-> advanced.is_valid,
                     advanced_summary |-> advanced.summary,
                     issues |-> SubSeq(advanced.issues, 1,
                                       IF Len(advanced.issues) < 5
                                       THEN Len(advanced.issues) ELSE 5)]]

\* the dict generated_workflows as the sequence of its items, in insertion order
Keys(d) == {d[i].id : i \in 1..Len(d)}

Stored(d, id) == (CHOOSE i \in 1..Len(d) : d[i].id = id)

\* d[id] = result
SetItem(d, id, result) ==
    IF id \in Keys(d)
    THEN [d EXCEPT ![Stored(d, id)] = [id |-> id, result |-> result]]
    ELSE Append(d, [id |-> id, result |-> result])

\* list(d.values())[-limit:] for a positive limit
LastValues(d, limit) ==
    LET from == IF Len(d) > limit THEN Len(d) - limit + 1 ELSE 1
    IN  [i \in 1..(Len(d) - from + 1) |-> d[from + i - 1].result]

Pending(r) == r \in 1..Len(requests) /\ requests[r].reply = <<>>

\* the handler of request r returns or raises: the reply goes out and the
\* event loop is free again
Finish(r, reply) ==
    /\ requests' = [requests EXCEPT ![r].reply = <<reply>>]
    /\ running' = 0

ApiInit ==
    /\ \E rs \in SeqsUpTo(RequestPool, MaxRequests) : rs # <<>> /\ requests = rs
    /\ running = 0
    /\ generated_workflows = <<>>
    /\ workflow_id = NONE
    /\ response = NONE
    /\ pc = "idle"
    /\ NoRequest
    /\ NoIngest
    /\ NoPipeline
    /\ NoCli

ApiFrame ==
    /\ UNCHANGED <<collection, pool, backup_queries, final, results_for_rerank>>
    /\ UNCHANGED <<ingestVars, pipelineVars, cliVars>>

\* generate_workflow is entered (the handlers are coroutines without an await,
\* so the event loop runs one at a time to its end): workflow_id, and
\* Step 1: RAG Retrieval
Retrieve(r) ==
    /\ running = 0
    /\ Pending(r)
    /\ requests[r].kind = "generate"
    /\ \E id \in IdPool : workflow_id' = id
    /\ query' = requests[r].query
    /\ n_results' = requests[r].top_k
    /\ \E found \in SearchResults : results' = found
    /\ response' = NONE
    /\ workflow' = NoWorkflow
    /\ top_similarity' = 0
    /\ validation' = NoValidation
    /\ confidence' = NoConfidence
    /\ IF results' = <<>>
       THEN /\ Finish(r, NoReferencesFound)
            /\ pc' = "not_found"
       ELSE /\ running' = r
            /\ pc' = "call_llm"
            /\ UNCHANGED requests
    /\ UNCHANGED generated_workflows
    /\ ApiFrame

\* Step 2: Build prompt and call LLM
CallLlm ==
    /\ running # 0
    /\ pc = "call_llm"
    /\ \E content \in LlmResponses : response' = content
    /\ IF Falsy(response')
       THEN /\ Finish(running, EmptyResponse)
            /\ pc' = "llm_empty"
       ELSE /\ pc' = "parse"
            /\ UNCHANGED <<requests, running>>
    /\ UNCHANGED <<workflow, top_similarity, validation, confidence, query, n_results,
                   results, generated_workflows, workflow_id>>
    /\ ApiFrame

\* Step 3: Parse response
ParseResponse ==
    /\ running # 0
    /\ pc = "parse"
    /\ IF ParsedResponses[response] = <<>>
       THEN /\ Finish(running, ParseFailed)
            /\ pc' = "parse_failed"
            /\ UNCHANGED workflow
       ELSE /\ workflow' = ParsedResponses[response][1]
            /\ pc' = "validate"
            /\ UNCHANGED <<requests, running>>
    /\ UNCHANGED <<top_similarity, validation, confidence, query, n_results, results,
                   generated_workflows, workflow_id, response>>
    /\ ApiFrame

\* Step 4: Validate, the response object, generated_workflows[workflow_id] =
\* result.dict() and the return; an exception of Step 4 leaves through the
\* last except clause
ValidateAndStore ==
    /\ running # 0
    /\ pc = "validate"
    /\ validation' = validate_workflow(workflow)
    /\ IF validation'.raised
       THEN /\ Finish(running, Unexpected)
            /\ pc' = "raised"
            /\ UNCHANGED <<top_similarity, confidence, generated_workflows>>
       ELSE /\ top_similarity' = Hundredths(results[1].score)
            /\ confidence' = calculate_confidence(workflow, top_similarity')
            /\ LET result == WorkflowResponse(workflow_id, query, workflow,
                                              validate_workflow_json(workflow),
                                              validation', confidence')
               IN  /\ generated_workflows' =
                          SetItem(generated_workflows, workflow_id, result)
                   /\ Finish(running, Ok(result))
            /\ pc' = "stored"
    /\ UNCHANGED <<workflow, query, n_results, results, workflow_id, response>>
    /\ ApiFrame

ApiLocals ==
    <<workflow, top_similarity, pc, validation, confidence, query, n_results, results,
      workflow_id, response>>

\* GET /workflow/{workflow_id}
GetWorkflow(r) ==
    /\ running = 0
    /\ Pending(r)
    /\ requests[r].kind = "get"
    /\ IF requests[r].workflow_id \notin Keys(generated_workflows)
       THEN Finish(r, HTTPException(404, "Workflow not found"))
       ELSE Finish(r, Ok(generated_workflows[
                         Stored(generated_workflows, requests[r].workflow_id)].result))
    /\ UNCHANGED generated_workflows
    /\ UNCHANGED ApiLocals
    /\ ApiFrame

\* GET /workflows
ListWorkflows(r) ==
    /\ running = 0
    /\ Pending(r)
    /\ requests[r].kind = "list"
    /\ Finish(r, Ok([workflows |-> LastValues(generated_workflows, requests[r].limit),
                           total |-> Len(generated_workflows)]))
    /\ UNCHANGED generated_workflows
    /\ UNCHANGED ApiLocals
    /\ ApiFrame

ApiNext ==
    \/ \E r \in 1..MaxRequests : Retrieve(r)
    \/ CallLlm
    \/ ParseResponse
    \/ ValidateAndStore
    \/ \E r \in 1..MaxRequests : GetWorkflow(r)
    \/ \E r \in 1..MaxRequests : ListWorkflows(r)

ApiSpec == ApiInit /\ [][ApiNext]_vars

(***************************************************************************)
(* Properties of the API server                                            *)
(***************************************************************************)
\* the steps of generate_workflow that can fail upstream of the validation,
\* named by the position the handler stops at
UpstreamFailures == {"not_found", "llm_empty", "parse_failed"}

\* what a caller reads off an error reply: the status code and the detail
Cause(reply) ==
    IF reply.status_code = 404 /\ reply.detail = "No reference workflows found"
    THEN "not_found"
    ELSE IF reply.status_code = 500 /\ reply.detail = "LLM returned empty response"
    THEN "llm_empty"
    ELSE IF reply.status_code = 500
            /\ reply.detail = "Failed to parse workflow JSON from LLM response"
    THEN "parse_failed"
    ELSE "other"

\* this step sends the reply of request r
Answered(r) ==
    /\ r \in 1..Len(requests)
    /\ requests[r].reply = <<>>
    /\ requests'[r].reply # <<>>

\* the handler stopped at an upstream failure: the later steps have not run
StoppedThere ==
    /\ pc = "not_found" =>
          results = <<>> /\ response = NONE
    /\ pc = "llm_empty" =>
          results # <<>> /\ Falsy(response)
    /\ pc = "parse_failed" =>
          results # <<>> /\ ~Falsy(response) /\ ParsedResponses[response] = <<>>
    /\ pc \in UpstreamFailures =>
          /\ workflow = NoWorkflow
          /\ top_similarity = 0
          /\ validation = NoValidation
          /\ confidence = NoConfidence

\* a generate request answered by this step with an upstream failure gets an
\* error reply that names the step, and nothing is stored
FailureReported ==
    \A r \in 1..Len(requests) :
        (Answered(r) /\ requests[r].kind = "generate") =>
            /\ pc' \in UpstreamFailures =>
                  /\ requests'[r].reply[1].status_code # 200
                  /\ requests'[r].reply[1].body = <<>>
                  /\ Cause(requests'[r].reply[1]) = pc'
                  /\ generated_workflows' = generated_workflows
            /\ pc' \notin UpstreamFailures =>
                  Cause(requests'[r].reply[1]) = "other"

\* C21: the three upstream failures of generate_workflow (no reference
\* workflows, an empty or missing completion, a completion that cannot be
\* parsed) reach the caller as three different error replies, and each
\* stops the handler at its step: no later step runs and nothing is added to
\* generated_workflows
C21_UpstreamFailuresDistinct == []StoppedThere /\ [][FailureReported]_vars

\* two generate requests have failed at different steps and got different
\* replies; the store is empty
C21_Witness ==
    /\ Len(requests) = 2
    /\ requests[1].reply = <<EmptyResponse>>
    /\ requests[2].reply = <<ParseFailed>>
    /\ pc = "parse_failed"
    /\ response = Fenced(TruncatedJson)
    /\ generated_workflows = <<>>

C21_WitnessNotFound ==
    /\ Len(requests) = 2
    /\ requests[1].reply = <<NoReferencesFound>>
    /\ requests[2].reply = <<ParseFailed>>
    /\ response = "I cannot help with that."
    /\ generated_workflows = <<>>

\* the answers of the server to one request with the two-node graph, the
\* one-node graph behind a trailing comma, and the graph whose connections
\* are a list
C21_WitnessStored ==
    /\ pc = "stored"
    /\ response = Fenced(TwoNodeJson)
    /\ Len(generated_workflows) = 1
    /\ generated_workflows[1].result.status = "success"
    /\ generated_workflows[1].result.confidence = 75
    /\ generated_workflows[1].result.confidence_label = "MEDIUM"

C21_WitnessRepaired ==
    /\ pc = "stored"
    /\ response = Fenced(TrailingCommaJson)
    /\ Len(generated_workflows) = 1
    /\ generated_workflows[1].result.status = "error"
    /\ generated_workflows[1].result.validation.basic_error
           = <<"Missing required key: 'connections'">>
    /\ generated_workflows[1].result.validation.advanced_valid
    /\ Len(generated_workflows[1].result.validation.issues) = 1

C21_WitnessUnexpected ==
    /\ pc = "raised"
    /\ response = Fenced(ListConnectionsJson)
    /\ \E r \in 1..Len(requests) : requests[r].reply = <<Unexpected>>
    /\ generated_workflows = <<>>

\* the reply a read request gets from a server that has served nothing else
AloneReply(request) ==
    IF request.kind = "get"
    THEN HTTPException(404, "Workflow not found")
    ELSE Ok([workflows |-> <<>>, total |-> 0])

\* C22: the requests are independent: a read request is answered as it would
\* be were it the only request, and what a generate request stored is still
\* what is stored under its id (no request reads or overwrites what another
\* request wrote)
C22_RequestsIndependent ==
    \A r \in 1..Len(requests) :
        requests[r].reply # <<>> =>
            /\ requests[r].kind \in {"get", "list"} =>
                  requests[r].reply[1] = AloneReply(requests[r])
            /\ (requests[r].kind = "generate" /\ requests[r].reply[1].status_code = 200) =>
                  LET result == requests[r].reply[1].body[1]
                  IN  /\ result.id \in Keys(generated_workflows)
                      /\ generated_workflows[Stored(generated_workflows, result.id)].result
                             = result

\* what the code does: the steps up to the parsing write nothing shared, and
\* the last step of a generate request that got through writes the entry of
\* its workflow_id, whether or not another request wrote it before
NothingSharedUntilStored ==
    generated_workflows' # generated_workflows =>
        /\ pc = "validate" /\ pc' = "stored"
        /\ workflow' = workflow
        /\ Keys(generated_workflows') = Keys(generated_workflows) \cup {workflow_id}
        /\ \A i \in 1..Len(generated_workflows) :
              generated_workflows[i].id # workflow_id =>
                  generated_workflows'[i] = generated_workflows[i]

C22_SharedStoreWrittenAtEnd == [][NothingSharedUntilStored]_vars

\* a GET /workflow/{id} answered with the result of another request
C22_WitnessRead ==
    /\ Len(requests) = 2
    /\ requests[1].kind = "generate"
    /\ requests[2].kind = "get"
    /\ requests[1].reply # <<>> /\ requests[2].reply # <<>>
    /\ requests[2].reply[1].status_code = 200
    /\ requests[2].reply[1].body = requests[1].reply[1].body

\* two generate requests drew the same id: the result of the first is gone
C22_WitnessOverwritten ==
    /\ Len(requests) = 2
    /\ requests[1].reply # <<>> /\ requests[2].reply # <<>>
    /\ requests[1].reply[1].status_code = 200
    /\ requests[2].reply[1].status_code = 200
    /\ Len(generated_workflows) = 1
    /\ generated_workflows[1].result = requests[2].reply[1].body[1]
    /\ generated_workflows[1].result # requests[1].reply[1].body[1]

====
